---------------------------- MODULE Spec2Model ----------------------------
(***************************************************************************)
(* Model of backend/upcean.c (libzint): one call of eanx(), the encoder of *)
(* the UPC-A, UPC-E, EAN-13, EAN-8, EAN-2, EAN-5 and ISBN symbologies and  *)
(* of their composite-linked variants.                                     *)
(*                                                                         *)
(* A C string is a sequence of one-character strings without its           *)
(* terminating NUL; a fixed-size buffer that the code indexes is a         *)
(* sequence of the buffer's size in which NUL marks a zero byte.           *)
(***************************************************************************)
EXTENDS Integers, Sequences, FiniteSets, TLC

VARIABLES
    symbology,      \* symbol->symbology
    source,         \* the raw input of eanx()
    option_2,       \* symbol->option_2 (add-on gap override)
    pc,             \* position inside eanx()
    local_source,   \* eanx: local_source[20]
    with_addon,     \* eanx: with_addon
    first_part,     \* eanx: first_part[14] as a C string
    second_part,    \* eanx: second_part[6] as a C string
    addon_gap,      \* eanx: addon_gap
    primary,        \* the primary string as it was handed to the encoder
    equivalent,     \* upce: equivalent[12]
    num_system,     \* upce: num_system
    dest,           \* eanx: dest[1000], the run-length pattern
    rows,           \* symbol->rows
    row_height,     \* symbol->row_height[]
    modules,        \* the set modules of symbol->encoded_data, as <<row, col>>
    width,          \* symbol->width
    text,           \* symbol->text
    addon_parity,   \* add_on: parity[6] as a C string
    error_number,   \* the value eanx() returns
    errtxt          \* the number that starts symbol->errtxt

vars == <<symbology, source, option_2, pc, local_source, with_addon, first_part,
          second_part, addon_gap, primary, equivalent, num_system, dest, rows,
          row_height, modules, width, text, addon_parity, error_number, errtxt>>

---------------------------------------------------------------------------
(* Characters and the helpers of common.c *)

NUL == "NUL"

NEON == <<"0", "1", "2", "3", "4", "5", "6", "7", "8", "9">>

SODIUM == <<"0", "1", "2", "3", "4", "5", "6", "7", "8", "9", "+">>

Digit == {NEON[i] : i \in 1..10}

Range(s) == {s[i] : i \in 1..Len(s)}

\* The characters with codes 45 ('-') to 74 ('J').
AsciiFrom45 == <<"-", ".", "/", "0", "1", "2", "3", "4", "5", "6", "7", "8", "9",
                 ":", ";", "<", "=", ">", "?", "@", "A", "B", "C", "D", "E", "F",
                 "G", "H", "I", "J">>

\* Position (from 0) of character c in the C string s, or -1.
posn(s, c) ==
    IF c \in Range(s) THEN (CHOOSE i \in 1..Len(s) : s[i] = c /\ \A j \in 1..(i - 1) : s[j] # c) - 1
    ELSE -1

\* common.c ctoi: a decimal or hexadecimal digit's value, else -1.
ctoi(c) ==
    CASE c = "0" -> 0 [] c = "1" -> 1 [] c = "2" -> 2 [] c = "3" -> 3 [] c = "4" -> 4
      [] c = "5" -> 5 [] c = "6" -> 6 [] c = "7" -> 7 [] c = "8" -> 8 [] c = "9" -> 9
      [] c \in {"A", "a"} -> 10 [] c \in {"B", "b"} -> 11 [] c \in {"C", "c"} -> 12
      [] c \in {"D", "d"} -> 13 [] c \in {"E", "e"} -> 14 [] c \in {"F", "f"} -> 15
      [] OTHER -> -1

\* common.c itoc: '0' + n for 0..9, else 'A' + (n - 10).
itoc(n) ==
    IF n >= 0 /\ n <= 9 THEN NEON[n + 1] ELSE AsciiFrom45[(65 + (n - 10)) - 44]

\* The C remainder a % b for b > 0: it has the sign of a.
CRem(a, b) == IF a >= 0 THEN a % b ELSE 0 - ((0 - a) % b)

\* common.c is_sane: every character of s is one of test_string.
is_sane(test_string, s) == \A i \in 1..Len(s) : s[i] \in Range(test_string)

\* common.c to_upper on the alphabet of the model.
to_upper(s) == [i \in 1..Len(s) |-> IF s[i] = "x" THEN "X" ELSE s[i]]

\* Character i (from 0) of the C string s; its terminator beyond the end.
At(s, i) == IF i >= 0 /\ i < Len(s) THEN s[i + 1] ELSE NUL

\* The first n characters of s (strncpy-like, n <= Len(s)).
Take(s, n) == IF n >= Len(s) THEN s ELSE SubSeq(s, 1, n)

\* The C string held by buffer b: its bytes before the first NUL.
CStr(b) == IF NUL \in Range(b) THEN SubSeq(b, 1, posn(b, NUL)) ELSE b

Zeroes(n) == [i \in 1..n |-> "0"]

---------------------------------------------------------------------------
(* Tables *)

UPCParity0 ==
    <<<<"B", "B", "B", "A", "A", "A">>,
      <<"B", "B", "A", "B", "A", "A">>,
      <<"B", "B", "A", "A", "B", "A">>,
      <<"B", "B", "A", "A", "A", "B">>,
      <<"B", "A", "B", "B", "A", "A">>,
      <<"B", "A", "A", "B", "B", "A">>,
      <<"B", "A", "A", "A", "B", "B">>,
      <<"B", "A", "B", "A", "B", "A">>,
      <<"B", "A", "B", "A", "A", "B">>,
      <<"B", "A", "A", "B", "A", "B">>>>

UPCParity1 ==
    <<<<"A", "A", "A", "B", "B", "B">>,
      <<"A", "A", "B", "A", "B", "B">>,
      <<"A", "A", "B", "B", "A", "B">>,
      <<"A", "A", "B", "B", "B", "A">>,
      <<"A", "B", "A", "A", "B", "B">>,
      <<"A", "B", "B", "A", "A", "B">>,
      <<"A", "B", "B", "B", "A", "A">>,
      <<"A", "B", "A", "B", "A", "B">>,
      <<"A", "B", "A", "B", "B", "A">>,
      <<"A", "B", "B", "A", "B", "A">>>>

EAN2Parity ==
    <<<<"A", "A">>,
      <<"A", "B">>,
      <<"B", "A">>,
      <<"B", "B">>>>

EAN5Parity ==
    <<<<"B", "B", "A", "A", "A">>,
      <<"B", "A", "B", "A", "A">>,
      <<"B", "A", "A", "B", "A">>,
      <<"B", "A", "A", "A", "B">>,
      <<"A", "B", "B", "A", "A">>,
      <<"A", "A", "B", "B", "A">>,
      <<"A", "A", "A", "B", "B">>,
      <<"A", "B", "A", "B", "A">>,
      <<"A", "B", "A", "A", "B">>,
      <<"A", "A", "B", "A", "B">>>>

EAN13Parity ==
    <<<<"A", "A", "A", "A", "A">>,
      <<"A", "B", "A", "B", "B">>,
      <<"A", "B", "B", "A", "B">>,
      <<"A", "B", "B", "B", "A">>,
      <<"B", "A", "A", "B", "B">>,
      <<"B", "B", "A", "A", "B">>,
      <<"B", "B", "B", "A", "A">>,
      <<"B", "A", "B", "A", "B">>,
      <<"B", "A", "B", "B", "A">>,
      <<"B", "B", "A", "B", "A">>>>

EANsetA ==
    <<<<"3", "2", "1", "1">>,
      <<"2", "2", "2", "1">>,
      <<"2", "1", "2", "2">>,
      <<"1", "4", "1", "1">>,
      <<"1", "1", "3", "2">>,
      <<"1", "2", "3", "1">>,
      <<"1", "1", "1", "4">>,
      <<"1", "3", "1", "2">>,
      <<"1", "2", "1", "3">>,
      <<"3", "1", "1", "2">>>>

EANsetB ==
    <<<<"1", "1", "2", "3">>,
      <<"1", "2", "2", "2">>,
      <<"2", "2", "1", "2">>,
      <<"1", "1", "4", "1">>,
      <<"2", "3", "1", "1">>,
      <<"1", "3", "2", "1">>,
      <<"4", "1", "1", "1">>,
      <<"2", "1", "3", "1">>,
      <<"3", "1", "2", "1">>,
      <<"2", "1", "1", "3">>>>

---------------------------------------------------------------------------
(* Check digits *)

\* common.c lookup: append the table entry of character c, if c is in set_string.
lookup(set_string, table, c, d) ==
    IF c \in Range(set_string) THEN d \o table[posn(set_string, c) + 1] ELSE d

RECURSIVE upc_count_swapped(_, _, _)
\* upc_check's loop with the two weights exchanged.
upc_count_swapped(s, i, length) ==
    IF i >= length THEN 0
    ELSE (IF i % 2 = 1 THEN 3 * ctoi(At(s, i)) ELSE ctoi(At(s, i)))
             + upc_count_swapped(s, i + 1, length)

RECURSIVE upc_count(_, _, _)
\* upc_check's loop from index i: weight 3 at even indices, 1 at odd ones.
upc_count(s, i, length) ==
    IF i >= length THEN 0
    ELSE (IF i % 2 = 1 THEN ctoi(At(s, i)) ELSE 3 * ctoi(At(s, i))) + upc_count(s, i + 1, length)

\* Calculate the correct check digit for a UPC barcode.
upc_check(s, length) ==
    LET count == upc_count(s, 0, length)
        check_digit == 10 - CRem(count, 10)
    IN  itoc(IF check_digit = 10 THEN 0 ELSE check_digit)

RECURSIVE ean_count(_, _, _)
\* ean_check's loop from index i: weight 1 at even indices, 3 at odd ones.
ean_count(s, i, length) ==
    IF i >= length THEN 0
    ELSE (IF i % 2 = 1 THEN 3 * ctoi(At(s, i)) ELSE ctoi(At(s, i))) + ean_count(s, i + 1, length)

\* Calculate the correct check digit for an EAN-13 barcode (including ISBN(13)).
ean_check(s, length) ==
    LET count == ean_count(s, 0, length)
        check_digit == 10 - CRem(count, 10)
    IN  itoc(IF check_digit = 10 THEN 0 ELSE check_digit)

RECURSIVE isbn_sum_from_zero(_, _, _)
\* isbn_check's loop with the weights starting at 0 instead of 1.
isbn_sum_from_zero(s, i, length) ==
    IF i >= length THEN 0
    ELSE ctoi(At(s, i)) * i + isbn_sum_from_zero(s, i + 1, length)

RECURSIVE isbn_sum(_, _, _)
\* isbn_check's loop from index i: the weight of index i is i + 1.
isbn_sum(s, i, length) ==
    IF i >= length THEN 0
    ELSE ctoi(At(s, i)) * (i + 1) + isbn_sum(s, i + 1, length)

\* For ISBN(10) and SBN only.
isbn_check(s, length) ==
    LET check == CRem(isbn_sum(s, 0, length), 11)
    IN  IF check = 10 THEN "X" ELSE itoc(check)

---------------------------------------------------------------------------
(* The symbology encoders.  Each returns what the C function leaves behind:   *)
(* its return value, the number of the error text, the pattern, symbol->text  *)
(* and the (possibly rewritten) source buffer.                                *)

Result(err, etxt, d, t, src) ==
    [error |-> err, errtxt |-> etxt, dest |-> d, text |-> t, source |-> src,
     equivalent |-> <<>>, num_system |-> -1]

RECURSIVE upca_draw_from(_, _, _, _)
\* upca_draw's loop from index i.
upca_draw_from(src, i, length, d) ==
    IF i >= length THEN d
    ELSE LET d1 == IF i = length \div 2 THEN d \o <<"1", "1", "1", "1", "1">> ELSE d
         IN  upca_draw_from(src, i + 1, length, lookup(NEON, EANsetA, At(src, i), d1))

\* UPC A is usually used for 12 digit numbers, but this function takes a source of any length.
upca_draw(src, length, d) ==
    upca_draw_from(src, 0, length, d \o <<"1", "1", "1">>) \o <<"1", "1", "1">>

\* upca taking the caller's twelfth digit as it comes.
upca_mismatch_ignored(src, length) == FALSE

\* upca: the supplied twelfth digit is not the check digit of the first eleven.
upca_mismatch(src, length) == At(src, length - 1) # upc_check(src, 11)

\* Make a UPC A barcode when we haven't been given the check digit.
upca(t0, src, length, d) ==
    IF length = 11
    THEN LET gtin == src \o <<upc_check(src, 11)>>
         IN  Result("OK", 0, upca_draw(gtin, length + 1, d), gtin, src)
    ELSE IF upca_mismatch(src, length)
         THEN Result("ZINT_ERROR_INVALID_CHECK", 270, d, t0, src)
         ELSE Result("OK", 0, upca_draw(src, length, d), src, src)

\* upce: the two number systems; the first source character names the system.
upce_has_system(symb, length) == (symb # "BARCODE_UPCE_CHK" /\ length = 7) \/ length = 8

upce_num_system(symb, src, length) ==
    IF upce_has_system(symb, length)
    THEN (IF At(src, 0) = "1" THEN 1 ELSE 0)
    ELSE 0

\* upce: hrt[] before the check digit is stored.
upce_hrt(symb, src, length) ==
    IF upce_has_system(symb, length) THEN src ELSE <<"0">> \o Take(src, length)

\* upce: source[] after the number system digit has been taken off.
upce_source(symb, src, length) ==
    IF upce_has_system(symb, length) THEN SubSeq(src, 2, length) ELSE src

\* upce's validation without Note 2 (mode 4).
upce_invalid_without_note2(src) ==
    LET emode == At(src, 5)
    IN  CASE emode = "3" -> At(src, 2) \in {"0", "1", "2"}
          [] emode \in {"5", "6", "7", "8", "9"} -> At(src, 4) = "0"
          [] OTHER -> FALSE

\* upce: Notes 1 to 3 of EN Table 5, on the six compressed digits.
upce_invalid(src) ==
    LET emode == At(src, 5)
    IN  CASE emode = "3" -> At(src, 2) \in {"0", "1", "2"}
          [] emode = "4" -> At(src, 3) = "0"
          [] emode \in {"5", "6", "7", "8", "9"} -> At(src, 4) = "0"
          [] OTHER -> FALSE

\* upce: the number of the error text of the Note that is violated.
upce_errtxt(src) ==
    LET emode == At(src, 5)
    IN  CASE emode = "3" -> 271 [] emode = "4" -> 272 [] OTHER -> 273

\* The expansion without the number system: the leading digit is always 0.
upce_equivalent_without_system(num, hrt, src) ==
    LET emode == At(src, 5)
        e0 == [[i \in 1..11 |-> "0"] EXCEPT ![2] = At(src, 0), ![3] = At(src, 1)]
    IN  CASE emode \in {"0", "1", "2"} ->
                [e0 EXCEPT ![4] = emode, ![9] = At(src, 2), ![10] = At(src, 3), ![11] = At(src, 4)]
          [] emode = "3" ->
                [e0 EXCEPT ![4] = At(src, 2), ![10] = At(src, 3), ![11] = At(src, 4)]
          [] emode = "4" ->
                [e0 EXCEPT ![4] = At(src, 2), ![5] = At(src, 3), ![11] = At(src, 4)]
          [] emode \in {"5", "6", "7", "8", "9"} ->
                [e0 EXCEPT ![4] = At(src, 2), ![5] = At(src, 3), ![6] = At(src, 4), ![11] = emode]
          [] OTHER -> e0

\* The expansion with mode 4 expanded as mode 3 is.
upce_equivalent_mode4_as_mode3(num, hrt, src) ==
    LET emode == At(src, 5)
        e0 == [[i \in 1..11 |-> "0"] EXCEPT ![1] = IF num = 1 THEN At(hrt, 0) ELSE "0",
                                            ![2] = At(src, 0), ![3] = At(src, 1)]
    IN  CASE emode \in {"0", "1", "2"} ->
                [e0 EXCEPT ![4] = emode, ![9] = At(src, 2), ![10] = At(src, 3), ![11] = At(src, 4)]
          [] emode = "3" ->
                [e0 EXCEPT ![4] = At(src, 2), ![10] = At(src, 3), ![11] = At(src, 4)]
          [] emode = "4" ->
                [e0 EXCEPT ![4] = At(src, 2), ![10] = At(src, 3), ![11] = At(src, 4)]
          [] emode \in {"5", "6", "7", "8", "9"} ->
                [e0 EXCEPT ![4] = At(src, 2), ![5] = At(src, 3), ![6] = At(src, 4), ![11] = emode]
          [] OTHER -> e0

\* The expansion with mode 3 leaving digits[3] out of the product code.
upce_equivalent_mode3_without_d3(num, hrt, src) ==
    LET emode == At(src, 5)
        e0 == [[i \in 1..11 |-> "0"] EXCEPT ![1] = IF num = 1 THEN At(hrt, 0) ELSE "0",
                                            ![2] = At(src, 0), ![3] = At(src, 1)]
    IN  CASE emode \in {"0", "1", "2"} ->
                [e0 EXCEPT ![4] = emode, ![9] = At(src, 2), ![10] = At(src, 3), ![11] = At(src, 4)]
          [] emode = "3" ->
                [e0 EXCEPT ![4] = At(src, 2), ![11] = At(src, 4)]
          [] emode = "4" ->
                [e0 EXCEPT ![4] = At(src, 2), ![5] = At(src, 3), ![11] = At(src, 4)]
          [] emode \in {"5", "6", "7", "8", "9"} ->
                [e0 EXCEPT ![4] = At(src, 2), ![5] = At(src, 3), ![6] = At(src, 4), ![11] = emode]
          [] OTHER -> e0

\* Expand the zero-compressed UPCE code to make a UPCA equivalent (EN Table 5).
upce_equivalent(num, hrt, src) ==
    LET emode == At(src, 5)
        e0 == [[i \in 1..11 |-> "0"] EXCEPT ![1] = IF num = 1 THEN At(hrt, 0) ELSE "0",
                                            ![2] = At(src, 0), ![3] = At(src, 1)]
    IN  CASE emode \in {"0", "1", "2"} ->
                [e0 EXCEPT ![4] = emode, ![9] = At(src, 2), ![10] = At(src, 3), ![11] = At(src, 4)]
          [] emode = "3" ->
                [e0 EXCEPT ![4] = At(src, 2), ![10] = At(src, 3), ![11] = At(src, 4)]
          [] emode = "4" ->
                [e0 EXCEPT ![4] = At(src, 2), ![5] = At(src, 3), ![11] = At(src, 4)]
          [] emode \in {"5", "6", "7", "8", "9"} ->
                [e0 EXCEPT ![4] = At(src, 2), ![5] = At(src, 3), ![6] = At(src, 4), ![11] = emode]
          [] OTHER -> e0

RECURSIVE upce_draw_from_sets_swapped(_, _, _, _, _)
\* The pattern loop of upce with set B drawn for 'A' and set A for 'B'.
upce_draw_from_sets_swapped(src, parity, i, length, d) ==
    IF i >= length THEN d
    ELSE LET d1 == CASE At(parity, i) = "A" -> lookup(NEON, EANsetB, At(src, i), d)
                     [] At(parity, i) = "B" -> lookup(NEON, EANsetA, At(src, i), d)
                     [] OTHER -> d
         IN  upce_draw_from_sets_swapped(src, parity, i + 1, length, d1)

RECURSIVE upce_draw_from(_, _, _, _, _)
\* upce's pattern loop from index i; parity[i] beyond the six letters is the NUL byte.
upce_draw_from(src, parity, i, length, d) ==
    IF i >= length THEN d
    ELSE LET d1 == CASE At(parity, i) = "A" -> lookup(NEON, EANsetA, At(src, i), d)
                     [] At(parity, i) = "B" -> lookup(NEON, EANsetB, At(src, i), d)
                     [] OTHER -> d
         IN  upce_draw_from(src, parity, i + 1, length, d1)

\* upce: the supplied check digit is not the one of the expanded code.
upce_mismatch(hrt, check_digit) == At(hrt, 7) # check_digit

\* UPC E is a zero-compressed version of UPC A.
upce(symb, t0, src0, length0, d) ==
    LET num == upce_num_system(symb, src0, length0)
        hrt == upce_hrt(symb, src0, length0)
        src == upce_source(symb, src0, length0)
        length == IF upce_has_system(symb, length0) THEN length0 - 1 ELSE length0
        equiv == upce_equivalent(num, hrt, src)
        check_digit == upc_check(equiv, 11)
        parity == IF num = 1 THEN UPCParity1[ctoi(check_digit) + 1]
                  ELSE UPCParity0[ctoi(check_digit) + 1]
        d1 == upce_draw_from(src, parity, 0, length, d \o <<"1", "1", "1">>)
                  \o <<"1", "1", "1", "1", "1", "1">>
    IN  IF upce_invalid(src)
        THEN [Result("ZINT_ERROR_INVALID_DATA", upce_errtxt(src), d, t0, src)
                EXCEPT !.equivalent = equiv, !.num_system = num]
        ELSE IF symb # "BARCODE_UPCE_CHK"
             THEN [Result("OK", 0, d1, Take(hrt, 7) \o <<check_digit>>, src)
                     EXCEPT !.equivalent = equiv, !.num_system = num]
             ELSE IF upce_mismatch(hrt, check_digit)
                  THEN [Result("ZINT_ERROR_INVALID_CHECK", 274, d1, t0, src)
                          EXCEPT !.equivalent = equiv, !.num_system = num]
                  ELSE [Result("OK", 0, d1, hrt, src)
                          EXCEPT !.equivalent = equiv, !.num_system = num]

\* The key with the two digits of an EAN-2 add-on in the other order.
add_on_key_units_first(src, length) ==
    IF length = 2
    THEN CRem(10 * ctoi(At(src, 1)) + ctoi(At(src, 0)), 4)
    ELSE CRem(3 * (ctoi(At(src, 0)) + ctoi(At(src, 2)) + ctoi(At(src, 4)))
              + 9 * (ctoi(At(src, 1)) + ctoi(At(src, 3))), 10)

\* add_on: the key into EAN2Parity (2 digits) or EAN5Parity (5 digits).
add_on_key(src, length) ==
    IF length = 2
    THEN CRem(10 * ctoi(At(src, 0)) + ctoi(At(src, 1)), 4)
    ELSE CRem(3 * (ctoi(At(src, 0)) + ctoi(At(src, 2)) + ctoi(At(src, 4)))
              + 9 * (ctoi(At(src, 1)) + ctoi(At(src, 3))), 10)

\* The key is an index of the table: a negative one reads before the table.
add_on_key_ok(src, length) == add_on_key(src, length) >= 0

\* add_on: the parity string of a 2-digit (EAN2) or a 5-digit (EAN5) add-on.
add_on_parity(src, length) ==
    IF length = 2 THEN EAN2Parity[add_on_key(src, length) + 1]
    ELSE EAN5Parity[add_on_key(src, length) + 1]

RECURSIVE add_on_from_separator_after_each(_, _, _, _, _)
\* The pattern loop of add_on with the glyph separator after every digit.
add_on_from_separator_after_each(src, parity, i, length, d) ==
    IF i >= length THEN d
    ELSE LET d1 == CASE At(parity, i) = "A" -> lookup(NEON, EANsetA, At(src, i), d)
                     [] At(parity, i) = "B" -> lookup(NEON, EANsetB, At(src, i), d)
                     [] OTHER -> d
         IN  add_on_from_separator_after_each(src, parity, i + 1, length, d1 \o <<"1", "1">>)

RECURSIVE add_on_from(_, _, _, _, _)
\* add_on's pattern loop from index i, with the glyph separator between digits.
add_on_from(src, parity, i, length, d) ==
    IF i >= length THEN d
    ELSE LET d1 == CASE At(parity, i) = "A" -> lookup(NEON, EANsetA, At(src, i), d)
                     [] At(parity, i) = "B" -> lookup(NEON, EANsetB, At(src, i), d)
                     [] OTHER -> d
             d2 == IF i # length - 1 THEN d1 \o <<"1", "1">> ELSE d1
         IN  add_on_from(src, parity, i + 1, length, d2)

\* add_on once parity[] holds the string parity.
add_on_with(src, length, d, gap, parity) ==
    LET d0 == IF gap # 0 THEN d \o <<itoc(gap)>> ELSE d
    IN  add_on_from(src, parity, 0, length, d0 \o <<"1", "1", "2">>)

\* EAN-2 and EAN-5 add-on codes.
add_on(src, length, d, gap) == add_on_with(src, length, d, gap, add_on_parity(src, length))

\* What parity[] may hold after strcpy from a pointer read before the table:
\* any string of the neighbouring tables, or nothing.
StrayParities ==
    Range(UPCParity0) \cup Range(UPCParity1) \cup Range(EAN2Parity) \cup Range(EAN5Parity)
        \cup {<<>>}

\* ean13: the supplied thirteenth digit is not the check digit of the first twelve.
ean13_mismatch(src, length) == At(src, length - 1) # ean_check(src, 12)

RECURSIVE ean13_draw_from_all_set_a(_, _, _, _, _)
\* The pattern loop of ean13 with every digit taken from set A.
ean13_draw_from_all_set_a(gtin, parity, i, length, d) ==
    IF i >= length THEN d
    ELSE LET d1 == IF i = 7 THEN d \o <<"1", "1", "1", "1", "1">> ELSE d
         IN  ean13_draw_from_all_set_a(gtin, parity, i + 1, length,
                                       lookup(NEON, EANsetA, At(gtin, i), d1))

RECURSIVE ean13_draw_from(_, _, _, _, _)
\* ean13's pattern loop from index i (the loop starts at 1).
ean13_draw_from(gtin, parity, i, length, d) ==
    IF i >= length THEN d
    ELSE LET d1 == IF i = 7 THEN d \o <<"1", "1", "1", "1", "1">> ELSE d
             d2 == IF (i > 1 /\ i < 7) /\ At(parity, i - 2) = "B"
                   THEN lookup(NEON, EANsetB, At(gtin, i), d1)
                   ELSE lookup(NEON, EANsetA, At(gtin, i), d1)
         IN  ean13_draw_from(gtin, parity, i + 1, length, d2)

ean13(t0, src, length, d) ==
    IF length # 12 /\ ean13_mismatch(src, length)
    THEN Result("ZINT_ERROR_INVALID_CHECK", 275, d, t0, src)
    ELSE LET gtin == IF length = 12 THEN src \o <<ean_check(src, 12)>> ELSE src
             glen == IF length = 12 THEN 13 ELSE length
             parity == lookup(SODIUM, EAN13Parity, At(gtin, 0), <<>>)
             d1 == ean13_draw_from(gtin, parity, 1, glen, d \o <<"1", "1", "1">>)
                       \o <<"1", "1", "1">>
         IN  Result("OK", 0, d1, gtin, src)

\* ean8: the supplied eighth digit is not the check digit of the first seven.
ean8_mismatch(src, length) == At(src, length - 1) # upc_check(src, 7)

\* Make an EAN-8 barcode when we haven't been given the check digit.
ean8(t0, src, length, d) ==
    IF length = 7
    THEN LET gtin == src \o <<upc_check(src, 7)>>
         IN  Result("OK", 0, upca_draw(gtin, length + 1, d), gtin, src)
    ELSE IF ean8_mismatch(src, length)
         THEN Result("ZINT_ERROR_INVALID_CHECK", 276, d, t0, src)
         ELSE Result("OK", 0, upca_draw(src, length, d), src, src)

\* isbn: a 13 character ISBN has to start with 978 or 979.
isbn_prefix_ok(src) ==
    (At(src, 0) = "9" /\ At(src, 1) = "7") /\ (At(src, 2) = "8" \/ At(src, 2) = "9")

\* isbn: the thirteenth character is not the EAN check digit of the first twelve.
isbn13_mismatch(src, src_len) == At(src, src_len - 1) # ean_check(src, 12)

\* isbn: the 10 character ISBN; a 9 digit SBN gets a leading zero.
isbn10_source(src, src_len) == IF src_len = 9 THEN <<"0">> \o src ELSE src

\* isbn: the tenth character is not the ISBN check character of the first nine.
isbn10_mismatch(src10) == isbn_check(src10, 9) # At(src10, 9)

\* isbn: the twelve digits handed to ean13 for a 10 character ISBN.
isbn10_to_ean(src10) == <<"9", "7", "8">> \o Take(src10, 9)

\* Make an EAN-13 barcode from an SBN or ISBN.
isbn(t0, src0, src_len, d) ==
    LET src == to_upper(src0)
    IN  IF ~is_sane(NEON \o <<"X">>, src)
        THEN Result("ZINT_ERROR_INVALID_DATA", 277, d, t0, src)
        ELSE IF src_len # 9 /\ src_len # 10 /\ src_len # 13
        THEN Result("ZINT_ERROR_TOO_LONG", 278, d, t0, src)
        ELSE IF src_len = 13
        THEN IF ~isbn_prefix_ok(src)
             THEN Result("ZINT_ERROR_INVALID_DATA", 279, d, t0, src)
             ELSE IF isbn13_mismatch(src, src_len)
                  THEN Result("ZINT_ERROR_INVALID_CHECK", 280, d, t0, src)
                  ELSE [ean13(t0, Take(src, 12), 12, d) EXCEPT !.source = Take(src, 12)]
        ELSE LET src10 == isbn10_source(src, src_len)
             IN  IF isbn10_mismatch(src10)
                 THEN Result("ZINT_ERROR_INVALID_CHECK", 281, d, t0, src10)
                 ELSE [ean13(t0, isbn10_to_ean(src10), 12, d)
                         EXCEPT !.source = isbn10_to_ean(src10)]

---------------------------------------------------------------------------
(* Normalisation *)

\* Position (from 0) of the first '+' of s, or Len(s).
first_plus(s) == IF "+" \in Range(s) THEN posn(s, "+") ELSE Len(s)

\* ean_leading_zeroes: the number of characters before the first '+'.
first_len_of(s) == first_plus(s)

\* ean_leading_zeroes: the number of characters after the first '+' that are not '+'.
second_len_of(s) == Cardinality({i \in (first_plus(s) + 2)..Len(s) : s[i] # "+"})

\* ean_leading_zeroes: the target length of the second part.
zsecond_len_of(second_len) ==
    IF second_len = 0 THEN 0 ELSE IF second_len <= 2 THEN 2 ELSE 5

\* ean_leading_zeroes: the target length of the first part (0 when none applies).
zfirst_len_of(symb, first_len, second_len) ==
    CASE symb \in {"BARCODE_EANX", "BARCODE_EANX_CC"} ->
            IF second_len = 0 /\ symb = "BARCODE_EANX" /\ first_len <= 5
            THEN (IF first_len <= 2 THEN 2 ELSE 5)
            ELSE IF first_len <= 12 THEN (IF first_len <= 7 THEN 7 ELSE 12) ELSE 0
      [] symb = "BARCODE_EANX_CHK" ->
            IF second_len = 0 /\ first_len <= 5
            THEN (IF first_len <= 2 THEN 2 ELSE 5)
            ELSE IF first_len <= 13 THEN (IF first_len <= 8 THEN 8 ELSE 13) ELSE 0
      [] symb \in {"BARCODE_UPCA", "BARCODE_UPCA_CC"} -> 11
      [] symb = "BARCODE_UPCA_CHK" -> 12
      [] symb \in {"BARCODE_UPCE", "BARCODE_UPCE_CC"} ->
            IF first_len = 7 THEN 7 ELSE IF first_len <= 6 THEN 6 ELSE 0
      [] symb = "BARCODE_UPCE_CHK" ->
            IF first_len = 8 THEN 8 ELSE IF first_len <= 7 THEN 7 ELSE 0
      [] symb = "BARCODE_ISBNX" -> IF first_len <= 9 THEN 9 ELSE 0
      [] OTHER -> 0

\* s with leading zeroes up to length n (s itself when it is longer).
pad_zeroes(s, n) == IF n > Len(s) THEN Zeroes(n - Len(s)) \o s ELSE s

\* Add leading zeroes to EAN and UPC strings.
ean_leading_zeroes(symb, src) ==
    LET first_len == first_len_of(src)
        second_len == second_len_of(src)
        fpart == SubSeq(src, 1, first_len)
        spart == SubSeq(src, first_len + 2, first_len + 1 + second_len)
        zfirst_part == pad_zeroes(fpart, zfirst_len_of(symb, first_len, second_len))
        zsecond_part == pad_zeroes(spart, zsecond_len_of(second_len))
    IN  IF first_len > 13 \/ second_len > 5
        THEN [ok |-> FALSE, local_source |-> <<>>, with_addon |-> FALSE]
        ELSE [ok |-> TRUE,
              local_source |-> IF zsecond_part # <<>>
                               THEN zfirst_part \o <<"+">> \o zsecond_part
                               ELSE zfirst_part,
              with_addon |-> "+" \in Range(src)]

RECURSIVE split_loop(_, _, _, _, _, _)
\* eanx: the do-while loop that copies local_source into first_part and second_part.
split_loop(ls, reader, writer, latch, fp, sp) ==
    LET plus == At(ls, reader) = "+"
        fp1 == IF plus THEN [fp EXCEPT ![writer + 1] = NUL] ELSE fp
        latch1 == latch \/ plus
        reader1 == IF plus THEN reader + 1 ELSE reader
        writer1 == IF plus THEN 0 ELSE writer
        sp2 == IF latch1 THEN [sp EXCEPT ![writer1 + 1] = At(ls, reader1)] ELSE sp
        fp2 == IF latch1 THEN fp1 ELSE [fp1 EXCEPT ![writer1 + 1] = At(ls, reader1)]
    IN  IF reader1 + 1 <= Len(ls)
        THEN split_loop(ls, reader1 + 1, writer1 + 1, latch1, fp2, sp2)
        ELSE [first_part |-> CStr(fp2), second_part |-> CStr(sp2)]

\* eanx: first_part and second_part out of local_source.
split(ls, addon) ==
    IF addon
    THEN split_loop(ls, 0, 0, FALSE, [i \in 1..14 |-> NUL], [i \in 1..6 |-> NUL])
    ELSE [first_part |-> ls, second_part |-> <<>>]

\* eanx: the gap between the symbol and its add-on.
addon_gap_of(symb, opt, addon) ==
    IF ~addon THEN 0
    ELSE IF symb \in {"BARCODE_UPCA", "BARCODE_UPCA_CHK", "BARCODE_UPCA_CC"}
         THEN (IF opt >= 9 /\ opt <= 12 THEN opt ELSE 9)
         ELSE (IF opt >= 7 /\ opt <= 12 THEN opt ELSE 7)

---------------------------------------------------------------------------
(* The dispatcher *)

Symbologies ==
    {"BARCODE_EANX", "BARCODE_EANX_CHK", "BARCODE_EANX_CC",
     "BARCODE_UPCA", "BARCODE_UPCA_CHK", "BARCODE_UPCA_CC",
     "BARCODE_UPCE", "BARCODE_UPCE_CHK", "BARCODE_UPCE_CC", "BARCODE_ISBNX"}

Composite == {"BARCODE_EANX_CC", "BARCODE_UPCA_CC", "BARCODE_UPCE_CC"}

\* eanx: the first part has a length the symbology's switch accepts.
dispatch_length_ok(symb, len) ==
    CASE symb \in {"BARCODE_EANX", "BARCODE_EANX_CHK"} -> len \in {2, 5, 7, 8, 12, 13}
      [] symb = "BARCODE_EANX_CC" -> len \in {7, 12, 13}
      [] symb \in {"BARCODE_UPCA", "BARCODE_UPCA_CHK", "BARCODE_UPCA_CC"} -> len \in {11, 12}
      [] symb \in {"BARCODE_UPCE", "BARCODE_UPCE_CC"} -> len >= 6 /\ len <= 7
      [] symb = "BARCODE_UPCE_CHK" -> len >= 6 /\ len <= 8
      [] OTHER -> TRUE

\* eanx: the number of the "Input wrong length" text of the symbology.
dispatch_errtxt(symb) ==
    CASE symb \in {"BARCODE_EANX", "BARCODE_EANX_CHK"} -> 286
      [] symb = "BARCODE_EANX_CC" -> 287
      [] symb \in {"BARCODE_UPCA", "BARCODE_UPCA_CHK"} -> 288
      [] symb = "BARCODE_UPCA_CC" -> 289
      [] symb \in {"BARCODE_UPCE", "BARCODE_UPCE_CHK"} -> 290
      [] OTHER -> 291

\* The separator bars with the modules of the middle row in the columns of the
\* two other rows.
separator_modules_aligned(symb, len, r) ==
    LET w == CASE symb = "BARCODE_EANX_CC" -> (IF len = 7 THEN 67 ELSE 95)
               [] symb = "BARCODE_UPCA_CC" -> 95
               [] OTHER -> 51
    IN  IF symb \in Composite
        THEN {<<r, 1>>, <<r, w>>, <<r + 1, 1>>, <<r + 1, w>>, <<r + 2, 1>>, <<r + 2, w>>}
        ELSE {}

\* eanx: the modules of the vertical separator bars (ISO/IEC 24723 section 11.4)
\* that a composite symbology sets in the rows r, r + 1 and r + 2.
separator_modules(symb, len, r) ==
    LET w == CASE symb = "BARCODE_EANX_CC" -> (IF len = 7 THEN 67 ELSE 95)
               [] symb = "BARCODE_UPCA_CC" -> 95
               [] OTHER -> 51
    IN  IF symb \in Composite
        THEN {<<r, 1>>, <<r, w>>, <<r + 1, 0>>, <<r + 1, w + 1>>, <<r + 2, 1>>, <<r + 2, w>>}
        ELSE {}

\* eanx: the encoder the switch calls.
encoder(symb, t0, fp, len, d) ==
    CASE symb \in {"BARCODE_EANX", "BARCODE_EANX_CHK"} ->
            IF len \in {2, 5} THEN Result("OK", 0, add_on(fp, len, d, 0), fp, fp)
            ELSE IF len \in {7, 8} THEN ean8(t0, fp, len, d)
            ELSE ean13(t0, fp, len, d)
      [] symb = "BARCODE_EANX_CC" ->
            IF len = 7 THEN ean8(t0, fp, len, d) ELSE ean13(t0, fp, len, d)
      [] symb \in {"BARCODE_UPCA", "BARCODE_UPCA_CHK", "BARCODE_UPCA_CC"} -> upca(t0, fp, len, d)
      [] symb \in {"BARCODE_UPCE", "BARCODE_UPCE_CHK", "BARCODE_UPCE_CC"} ->
            upce(symb, t0, fp, len, d)
      [] OTHER -> isbn(t0, fp, len, d)

RECURSIVE expand_from(_, _, _, _, _)
\* common.c expand: the columns set by the runs of data from index reader on.
expand_from(data, reader, writer, bar, cols) ==
    IF reader >= Len(data) THEN [cols |-> cols, writer |-> writer]
    ELSE LET n == ctoi(At(data, reader))
             w1 == IF n > 0 THEN writer + n ELSE writer
         IN  expand_from(data, reader + 1, w1, ~bar,
                         IF bar THEN cols \cup (writer..(w1 - 1)) ELSE cols)

\* The shift that leaves the modules of the row where they were, column 0 too.
shift_row_not_cleared(mods, r, w) ==
    mods \cup {<<r, c + 1>> : c \in {k \in 0..w : <<r, k>> \in mods}}

\* eanx: the last row shifted to the right by one column.
shift_row(mods, r, w) ==
    {m \in mods : m[1] # r \/ m[2] > w + 1}
        \cup {<<r, c + 1>> : c \in {k \in 0..w : <<r, k>> \in mods}}

---------------------------------------------------------------------------
(* The requests of the model *)

\* The longest input made of every character of the alphabet.
MaxRaw == 2

\* The longest primary part of the structured inputs (one more than eanx accepts).
MaxPrimary == 14

\* The input alphabet: the digits, the add-on separator, the ISBN check
\* character in both cases, and one character no symbology accepts.
Alphabet == Digit \cup {"+", "X", "x", "-"}

\* Every input of at most MaxRaw characters.
ShortSources == UNION {[1..n -> Alphabet] : n \in 1..MaxRaw}

\* Zeroes followed by two digits.
TailSources == {Zeroes(k) \o t : k \in 0..(MaxPrimary - 2), t \in [1..2 -> Digit]}

\* A number system digit or an ISBN prefix, zeroes, and two characters.
HeadSources ==
    {s \in {h \o Zeroes(k) \o <<a, b>> :
                h \in {<<"1">>, <<"5">>, <<"9", "7", "8">>, <<"9", "7", "9">>, <<"9", "7", "7">>},
                k \in 0..(MaxPrimary - 3),
                a \in {"0", "3", "6", "X"}, b \in Digit \cup {"X", "x"}} :
        Len(s) <= MaxPrimary}

\* UPC-E codes: an optional number system digit, two manufacturer digits, the
\* digits the forbidden-value rules read, the mode digit and an optional check digit.
UpceSources ==
    {h \o <<d2, d3, d4, d5>> \o c :
        h \in {<<>>, <<"8", "9">>, <<"1", "8", "9">>, <<"5", "0", "0">>},
        d2 \in {"0", "3"}, d3 \in {"0", "7"}, d4 \in {"0", "4"}, d5 \in Digit,
        c \in {<<>>} \cup {<<x>> : x \in Digit}}

\* Primary parts for the add-on inputs: zeroes, zeroes with a last digit that is
\* no check digit of them, and an ISBN.
AddonPrimaries ==
    {Zeroes(k) \o t : k \in 0..(MaxPrimary - 1), t \in {<<>>, <<"7">>}}
        \cup {<<"9", "7", "8", "0", "0", "0", "0", "0", "0", "0", "0", "0", "2">>}

\* Add-on parts, with one '+' and with several.
AddonParts ==
    {<<"+">>, <<"+", "1">>, <<"+", "1", "2">>, <<"+", "1", "2", "3">>,
     <<"+", "1", "2", "3", "4">>, <<"+", "1", "2", "3", "4", "5">>,
     <<"+", "1", "2", "3", "4", "5", "6">>, <<"+", "+">>, <<"+", "1", "+">>,
     <<"+", "1", "+", "2">>, <<"+", "+", "1", "2", "3">>, <<"+", "2", "+", "3", "4", "5">>,
     <<"+", "1", "2", "+", "3", "4", "5">>, <<"+", "1", "2", "+", "3", "4">>,
     <<"+", "1", "-">>, <<"+", "X">>, <<"+", "1", "2", "+", "+", "3", "4", "5">>}

\* The values of option_2 tried with an add-on: below, inside and above the ranges.
GapOptions == {0, 8, 10, 13}

\* The inputs of the specification's examples.
ExampleSources ==
    {<<"0", "3", "6", "0", "0", "0", "2", "9", "1", "4", "5", "2">>,
     <<"9", "7", "8", "0", "1", "9", "5", "0", "1", "1", "0", "9">>,
     <<"7", "3", "5", "1", "3", "5", "3", "7">>,
     <<"1", "2", "3", "4", "5", "6">>}

Requests ==
    {[source |-> s, option_2 |-> 0] :
        s \in ShortSources \cup TailSources \cup HeadSources \cup UpceSources
                 \cup ExampleSources}
    \cup {[source |-> p \o a, option_2 |-> o] :
            p \in AddonPrimaries, a \in AddonParts, o \in GapOptions}

RowIndex == 0..3

---------------------------------------------------------------------------
(* One call of eanx() *)

Init ==
    /\ symbology \in Symbologies
    /\ \E r \in Requests : source = r.source /\ option_2 = r.option_2
    /\ pc = "start"
    /\ local_source = <<>>
    /\ with_addon = FALSE
    /\ first_part = <<>>
    /\ second_part = <<>>
    /\ addon_gap = 0
    /\ primary = <<>>
    /\ equivalent = <<>>
    /\ num_system = -1
    /\ dest = <<>>
    /\ rows = 0
    /\ row_height = [r \in RowIndex |-> 0]
    /\ modules = {}
    /\ width = 0
    /\ text = <<>>
    /\ addon_parity = <<>>
    /\ error_number = "OK"
    /\ errtxt = 0

\* eanx returns err with error text number etxt.
Fail(err, etxt) ==
    /\ pc' = "done"
    /\ error_number' = err
    /\ errtxt' = etxt

\* eanx: the length ceiling and the character set of the raw input.
Validate ==
    /\ pc = "start"
    /\ IF Len(source) > 19
       THEN Fail("ZINT_ERROR_TOO_LONG", 283)
       ELSE IF symbology # "BARCODE_ISBNX" /\ ~is_sane(SODIUM, source)
       THEN Fail("ZINT_ERROR_INVALID_DATA", 284)
       ELSE IF symbology = "BARCODE_ISBNX" /\ ~is_sane(NEON \o <<"X", "x", "+">>, source)
       THEN Fail("ZINT_ERROR_INVALID_DATA", 285)
       ELSE pc' = "normalize" /\ UNCHANGED <<error_number, errtxt>>
    /\ UNCHANGED <<symbology, source, option_2, local_source, with_addon, first_part,
                   second_part, addon_gap, primary, equivalent, num_system, dest, rows,
                   row_height, modules, width, text, addon_parity>>

\* eanx: add leading zeroes, checking max lengths of parts.
Normalize ==
    /\ pc = "normalize"
    /\ LET z == ean_leading_zeroes(symbology, source)
       IN  IF ~z.ok
           THEN Fail("ZINT_ERROR_TOO_LONG", 294) /\ UNCHANGED <<local_source, with_addon>>
           ELSE /\ pc' = "split"
                /\ local_source' = z.local_source
                /\ with_addon' = z.with_addon
                /\ UNCHANGED <<error_number, errtxt>>
    /\ UNCHANGED <<symbology, source, option_2, first_part, second_part, addon_gap,
                   primary, equivalent, num_system, dest, rows, row_height, modules,
                   width, text, addon_parity>>

\* eanx: split local_source into the two parts and choose the add-on gap.
Split ==
    /\ pc = "split"
    /\ LET p == split(local_source, with_addon)
       IN  /\ first_part' = p.first_part
           /\ second_part' = p.second_part
    /\ addon_gap' = addon_gap_of(symbology, option_2, with_addon)
    /\ pc' = "encode"
    /\ UNCHANGED <<symbology, source, option_2, local_source, with_addon, primary,
                   equivalent, num_system, dest, rows, row_height, modules, width, text,
                   addon_parity, error_number, errtxt>>

\* eanx: the switch on the symbology, up to the test of the encoder's return value.
Encode ==
    /\ pc = "encode"
    /\ IF ~dispatch_length_ok(symbology, Len(first_part))
       THEN /\ Fail("ZINT_ERROR_TOO_LONG", dispatch_errtxt(symbology))
            /\ UNCHANGED <<first_part, primary, equivalent, num_system, dest, rows,
                           row_height, modules, text, addon_parity>>
       ELSE \E r \in {encoder(symbology, text, first_part, Len(first_part), dest)} :
                /\ modules' = modules \cup separator_modules(symbology, Len(first_part), rows)
                /\ row_height' = IF symbology \in Composite
                                 THEN [i \in RowIndex |->
                                          IF i \in rows..(rows + 2) THEN 2 ELSE row_height[i]]
                                 ELSE row_height
                /\ rows' = IF symbology \in Composite THEN rows + 3 ELSE rows
                /\ primary' = first_part
                /\ first_part' = r.source
                /\ equivalent' = r.equivalent
                /\ num_system' = r.num_system
                /\ dest' = r.dest
                /\ text' = r.text
                /\ addon_parity' =
                      IF symbology \in {"BARCODE_EANX", "BARCODE_EANX_CHK"}
                            /\ Len(first_part) \in {2, 5}
                      THEN add_on_parity(first_part, Len(first_part))
                      ELSE addon_parity
                /\ IF r.error # "OK"
                   THEN Fail(r.error, r.errtxt)
                   ELSE pc' = "addon" /\ UNCHANGED <<error_number, errtxt>>
    /\ UNCHANGED <<symbology, source, option_2, local_source, with_addon, second_part,
                   addon_gap, width>>

\* eanx: the switch on the length of the second part.
AddOn ==
    /\ pc = "addon"
    /\ LET len == Len(second_part)
       IN  /\ len \in {2, 5} => add_on_key_ok(second_part, len)
           /\ IF len = 0
              THEN pc' = "raster" /\ UNCHANGED <<dest, text, addon_parity, error_number, errtxt>>
              ELSE IF len \in {2, 5}
              THEN /\ addon_parity' = add_on_parity(second_part, len)
                   /\ dest' = add_on(second_part, len, dest, addon_gap)
                   /\ text' = text \o <<"+">> \o second_part
                   /\ pc' = "raster"
                   /\ UNCHANGED <<error_number, errtxt>>
              ELSE Fail("ZINT_ERROR_TOO_LONG", 292) /\ UNCHANGED <<dest, text, addon_parity>>
    /\ UNCHANGED <<symbology, source, option_2, local_source, with_addon, first_part,
                   second_part, addon_gap, primary, equivalent, num_system, rows,
                   row_height, modules, width>>

\* eanx: add_on with a parity key below zero (an add-on holding 'X' or 'x', which
\* ctoi maps to -1).  The read before the parity table is undefined behaviour:
\* the call crashes, or goes on with whatever string the stray pointer names.
AddOnUndefined ==
    /\ pc = "addon"
    /\ Len(second_part) \in {2, 5}
    /\ ~add_on_key_ok(second_part, Len(second_part))
    /\ \E outcome \in StrayParities \cup {<<"crash">>} :
          IF outcome = <<"crash">>
          THEN pc' = "crashed" /\ UNCHANGED <<dest, text, addon_parity>>
          ELSE /\ addon_parity' = outcome
               /\ dest' = add_on_with(second_part, Len(second_part), dest, addon_gap, outcome)
               /\ text' = text \o <<"+">> \o second_part
               /\ pc' = "raster"
    /\ UNCHANGED <<symbology, source, option_2, local_source, with_addon, first_part,
                   second_part, addon_gap, primary, equivalent, num_system, rows,
                   row_height, modules, width, error_number, errtxt>>

\* eanx: expand the pattern into a row of modules.
Raster ==
    /\ pc = "raster"
    /\ \E e \in {expand_from(dest, 0, 0, TRUE, {})} :
          /\ modules' = modules \cup {<<rows, c>> : c \in e.cols}
          /\ width' = IF e.writer > width THEN e.writer ELSE width
    /\ rows' = rows + 1
    /\ pc' = "shift"
    /\ UNCHANGED <<symbology, source, option_2, local_source, with_addon, first_part,
                   second_part, addon_gap, primary, equivalent, num_system, dest,
                   row_height, text, addon_parity, error_number, errtxt>>

\* eanx: a composite symbology shifts the last row to the right by one column to
\* allow for the separator bars; the call then returns.
Shift ==
    /\ pc = "shift"
    /\ IF symbology \in Composite
       THEN /\ modules' = shift_row(modules, rows - 1, width)
            /\ width' = width + 2
       ELSE UNCHANGED <<modules, width>>
    /\ pc' = "done"
    /\ UNCHANGED <<symbology, source, option_2, local_source, with_addon, first_part,
                   second_part, addon_gap, primary, equivalent, num_system, dest, rows,
                   row_height, text, addon_parity, error_number, errtxt>>

\* The larger of two indices.
Highest(a, b) == IF a >= b THEN a ELSE b

\* ean_leading_zeroes: the highest index written in each of its buffers and in
\* local_source (a string of n characters is written up to index n, the NUL).
leading_zeroes_writes(symb, src) ==
    LET first_len == first_len_of(src)
        second_len == second_len_of(src)
        zfirst == Highest(zfirst_len_of(symb, first_len, second_len), first_len)
        zsecond == Highest(zsecond_len_of(second_len), second_len)
    IN  [first_part |-> first_len, second_part |-> second_len,
         zfirst_part |-> zfirst, zsecond_part |-> zsecond,
         local_source |-> IF zsecond > 0 THEN zfirst + 1 + zsecond ELSE zfirst]

RECURSIVE split_writes(_, _, _, _, _, _)
\* eanx: the highest index the do-while loop writes in first_part (ft) and in
\* second_part (st); -1 when the buffer is not written.
split_writes(ls, reader, writer, latch, ft, st) ==
    LET plus == At(ls, reader) = "+"
        ft1 == IF plus THEN Highest(ft, writer) ELSE ft
        latch1 == latch \/ plus
        reader1 == IF plus THEN reader + 1 ELSE reader
        writer1 == IF plus THEN 0 ELSE writer
        st2 == IF latch1 THEN Highest(st, writer1) ELSE st
        ft2 == IF latch1 THEN ft1 ELSE Highest(ft1, writer1)
    IN  IF reader1 + 1 <= Len(ls)
        THEN split_writes(ls, reader1 + 1, writer1 + 1, latch1, ft2, st2)
        ELSE [first_part |-> ft2, second_part |-> st2]

\* eanx: the highest indices written in first_part and second_part by the split.
eanx_writes(ls, addon) ==
    IF addon THEN split_writes(ls, 0, 0, FALSE, -1, -1)
    ELSE [first_part |-> Len(ls), second_part |-> -1]

\* The highest index the encoder called for the symbology writes in each of its
\* buffers and, for isbn, in the caller's first_part; -1 when it writes none.
encoder_writes(symb, fp, len) ==
    LET none == [gtin |-> -1, hrt |-> -1, equivalent |-> -1, parity |-> -1, first_part |-> -1]
        gtin_of(n) == Highest(len, IF len = n THEN n + 1 ELSE -1)
        ean13_parity(g) == Len(lookup(SODIUM, EAN13Parity, At(g, 0), <<>>))
        is13 == symb \in {"BARCODE_EANX", "BARCODE_EANX_CHK", "BARCODE_EANX_CC"}
                    /\ len \in {12, 13}
        is8 == \/ symb \in {"BARCODE_EANX", "BARCODE_EANX_CHK"} /\ len \in {7, 8}
               \/ symb = "BARCODE_EANX_CC" /\ len = 7
        up == to_upper(fp)
    IN  CASE is13 /\ (len = 12 \/ ~ean13_mismatch(fp, len)) ->
                [none EXCEPT !.gtin = gtin_of(12), !.parity = ean13_parity(fp)]
          [] is13 -> [none EXCEPT !.gtin = gtin_of(12), !.parity = 0]
          [] is8 -> [none EXCEPT !.gtin = gtin_of(7)]
          [] symb \in {"BARCODE_UPCA", "BARCODE_UPCA_CHK", "BARCODE_UPCA_CC"} ->
                [none EXCEPT !.gtin = gtin_of(11)]
          [] symb \in {"BARCODE_UPCE", "BARCODE_UPCE_CHK", "BARCODE_UPCE_CC"} ->
                [none EXCEPT
                    !.hrt = IF upce_invalid(upce_source(symb, fp, len))
                            THEN Len(upce_hrt(symb, fp, len))
                            ELSE IF symb # "BARCODE_UPCE_CHK" THEN 8
                                 ELSE Len(upce_hrt(symb, fp, len)),
                    !.equivalent = 11,
                    !.parity = IF upce_invalid(upce_source(symb, fp, len)) THEN -1 ELSE 6]
          [] symb = "BARCODE_ISBNX" ->
                IF ~is_sane(NEON \o <<"X">>, up) \/ len \notin {9, 10, 13} THEN none
                ELSE IF len = 13
                THEN IF ~isbn_prefix_ok(up) \/ isbn13_mismatch(up, len) THEN none
                     ELSE [none EXCEPT !.first_part = 12, !.gtin = 13,
                                       !.parity = ean13_parity(up)]
                ELSE IF isbn10_mismatch(isbn10_source(up, len))
                THEN [none EXCEPT !.first_part = IF len = 9 THEN 10 ELSE -1]
                ELSE [none EXCEPT !.first_part = 12, !.gtin = 13, !.parity = 5]
          [] OTHER -> none

Next == Validate \/ Normalize \/ Split \/ Encode \/ AddOn \/ AddOnUndefined \/ Raster \/ Shift

Spec == Init /\ [][Next]_vars

---------------------------------------------------------------------------
(* Properties.  The reference definitions below restate the specification's    *)
(* formulas; they use none of the operators that model the code's algorithms.  *)

AllDigits(s) == \A i \in 1..Len(s) : s[i] \in Digit

DigitVal(c) == CHOOSE n \in 0..9 : NEON[n + 1] = c

RECURSIVE WeightedSum(_, _, _, _)
\* The sum over i < n of w_i * s[i], w_i = wEven at even i (from 0), wOdd at odd i.
WeightedSum(s, n, wEven, wOdd) ==
    IF n = 0 THEN 0
    ELSE WeightedSum(s, n - 1, wEven, wOdd)
             + (IF (n - 1) % 2 = 0 THEN wEven ELSE wOdd) * DigitVal(s[n])

\* (10 - (sum mod 10)) mod 10, as a digit character.
Mod10Check(s, n, wEven, wOdd) == NEON[((10 - (WeightedSum(s, n, wEven, wOdd) % 10)) % 10) + 1]

\* The encoder has been called: the dispatcher accepted the length of the primary.
Dispatched ==
    \/ pc \in {"addon", "raster", "shift", "crashed"}
    \/ pc = "done" /\ errtxt \notin {283, 284, 285, 294, 286, 287, 288, 289, 290, 291}

Succeeded == pc = "done" /\ error_number = "OK"

Failed == pc = "done" /\ error_number # "OK"

UpcaClass == {"BARCODE_UPCA", "BARCODE_UPCA_CHK", "BARCODE_UPCA_CC"}

EanClass == {"BARCODE_EANX", "BARCODE_EANX_CHK", "BARCODE_EANX_CC"}

UpceClass == {"BARCODE_UPCE", "BARCODE_UPCE_CHK", "BARCODE_UPCE_CC"}

\* C3: upc_check weighs even indices 3 and odd indices 1, ean_check the other way
\* round, and both return the digit (10 - (sum mod 10)) mod 10: on every primary
\* of digits handed to an encoder, for the lengths 7, 11 (upc_check) and 12 (ean_check).
C3_CheckDigitWeights ==
    (Dispatched /\ AllDigits(primary)) =>
        /\ Len(primary) >= 7 =>
              /\ upc_check(primary, 7) = Mod10Check(primary, 7, 3, 1)
              /\ upc_check(primary, 7) \in Digit
        /\ Len(primary) >= 11 =>
              /\ upc_check(primary, 11) = Mod10Check(primary, 11, 3, 1)
              /\ upc_check(primary, 11) \in Digit
        /\ Len(primary) >= 12 =>
              /\ ean_check(primary, 12) = Mod10Check(primary, 12, 1, 3)
              /\ ean_check(primary, 12) \in Digit
        /\ (symbology \in UpcaClass /\ Len(primary) = 11 /\ ~Failed) =>
              SubSeq(text, 1, 12) = primary \o <<Mod10Check(primary, 11, 3, 1)>>
        /\ (symbology \in EanClass /\ Len(primary) = 12 /\ ~Failed) =>
              SubSeq(text, 1, 13) = primary \o <<Mod10Check(primary, 12, 1, 3)>>
        /\ (symbology \in EanClass /\ Len(primary) = 7 /\ ~Failed) =>
              SubSeq(text, 1, 8) = primary \o <<Mod10Check(primary, 7, 3, 1)>>

\* A 12-digit EAN-13 primary with digits other than 0 at an even and at an odd
\* index has been encoded, and the two functions disagree on it.
C3_Witness ==
    /\ Succeeded /\ symbology = "BARCODE_EANX" /\ Len(primary) = 12
    /\ primary[1] = "5" /\ primary[11] = "3" /\ primary[12] = "6"
    /\ text = primary \o <<"4">>
    /\ upc_check(primary, 11) = "6"

\* The number of '+' in the request.
PlusCount == Cardinality({i \in 1..Len(source) : source[i] = "+"})

\* The primary part of the request: the characters before the first '+'.
ReqPrimary ==
    SubSeq(source, 1,
           CHOOSE n \in 0..Len(source) :
               /\ \A i \in 1..n : source[i] # "+"
               /\ n = Len(source) \/ source[n + 1] = "+")

\* The add-on part of the request: the characters after the first '+'.
ReqAddon == SubSeq(source, Len(ReqPrimary) + 2, Len(source))

\* The request is made of the characters its symbology accepts.
ReqSane ==
    \A i \in 1..Len(source) :
        source[i] \in Digit \cup {"+"} \cup (IF symbology = "BARCODE_ISBNX" THEN {"X", "x"} ELSE {})

\* A primary part p of the symbology carries a check character of the caller.
\* (Eight digits are an EAN-8 with its check digit under BARCODE_EANX_CHK only:
\* the other EAN variants pad them to the twelve data digits of an EAN-13.)
CarriesCheck(p) ==
    \/ symbology \in UpcaClass /\ Len(p) = 12
    \/ symbology \in EanClass /\ Len(p) = 13
    \/ symbology = "BARCODE_EANX_CHK" /\ Len(p) = 8
    \/ symbology = "BARCODE_UPCE_CHK" /\ Len(p) \in {7, 8}
    \/ symbology = "BARCODE_ISBNX" /\ Len(p) \in {9, 10, 13}

\* The check character the caller supplied (an ISBN 'x' counts as 'X').
SuppliedCheck(p) == IF p[Len(p)] = "x" THEN "X" ELSE p[Len(p)]

\* A UPC-E primary part p starts with a number system digit.
HasSystemDigit(p) == Len(p) = 8 \/ (Len(p) = 7 /\ symbology # "BARCODE_UPCE_CHK")

\* The six compressed digits of the UPC-E primary part p.
SixDigits(p) == IF HasSystemDigit(p) THEN SubSeq(p, 2, 7) ELSE SubSeq(p, 1, 6)

\* The number system digit of the UPC-E primary part p, "0" when it has none.
SystemDigit(p) == IF HasSystemDigit(p) THEN p[1] ELSE "0"

\* The check character the code recomputes for the primary part p.
RecomputedCheck(p) ==
    CASE symbology \in UpcaClass -> upc_check(p, 11)
      [] symbology \in EanClass ->
            IF Len(p) = 8 THEN upc_check(p, 7) ELSE ean_check(p, 12)
      [] symbology = "BARCODE_UPCE_CHK" ->
            upc_check(upce_equivalent(IF SystemDigit(p) = "1" THEN 1 ELSE 0,
                                      <<SystemDigit(p)>>, SixDigits(p)), 11)
      [] OTHER ->
            IF Len(p) = 13 THEN ean_check(p, 12)
            ELSE isbn_check(to_upper(isbn10_source(p, Len(p))), 9)

\* The six UPC-E digits break one of the forbidden-value rules.
ForbiddenUpce(six) ==
    \/ six[6] = "3" /\ six[3] \in {"0", "1", "2"}
    \/ six[6] = "4" /\ six[4] = "0"
    \/ six[6] \in {"5", "6", "7", "8", "9"} /\ six[5] = "0"

\* The request fails a validation made before the check character is looked at:
\* the characters, the lengths, the UPC-E forbidden values, the prefix of an ISBN.
EarlierError(p) ==
    \/ errtxt \in {283, 284, 285, 294, 286, 287, 288, 289, 290, 291, 277, 278}
    \/ symbology = "BARCODE_UPCE_CHK" /\ ForbiddenUpce(SixDigits(p))
    \/ symbology = "BARCODE_ISBNX" /\ Len(p) = 13
          /\ SubSeq(p, 1, 3) \notin {<<"9", "7", "8">>, <<"9", "7", "9">>}

\* The primary part of the request carries a check character that differs from
\* the recomputed one.
WrongCheck == ReqSane /\ CarriesCheck(ReqPrimary)
                  /\ SuppliedCheck(ReqPrimary) # RecomputedCheck(ReqPrimary)

\* C1: a request whose primary part carries a check character differing from the
\* recomputed one never succeeds, and it fails with the invalid-check-digit error
\* unless an earlier validation failed.
C1_WrongCheckDigitFails ==
    WrongCheck =>
        /\ ~Succeeded
        /\ (pc = "done" /\ ~EarlierError(ReqPrimary)) =>
               error_number = "ZINT_ERROR_INVALID_CHECK"

\* C1 for the requests with at most one '+': the property holds for them.
C1_WrongCheckDigitFails_OnePlus == PlusCount <= 1 => C1_WrongCheckDigitFails

\* C1: a 13-digit EAN whose last digit is not its check digit, followed by an
\* add-on with a second '+', has been encoded.
C1_SucceedsWithWrongCheck ==
    /\ WrongCheck /\ Succeeded
    /\ symbology = "BARCODE_EANX" /\ Len(ReqPrimary) = 13 /\ PlusCount = 2

\* The rasterizer-visible content of the Symbol is what it was before the call.
Untouched ==
    /\ rows = 0
    /\ row_height = [r \in RowIndex |-> 0]
    /\ modules = {}
    /\ text = <<>>

\* C2: when the call returns an error, the row count, the row heights, the set
\* modules and the text of the Symbol are what they were before the call.
C2_NoOutputOnFailure == Failed => Untouched

\* C2 for the symbologies that are not composite: the property holds for them.
C2_NoOutputOnFailure_NotComposite == symbology \notin Composite => C2_NoOutputOnFailure

\* C2: a composite EAN-13 refused for its check digit has left three rows of
\* separator modules in the Symbol.
C2_SeparatorsLeftBehind ==
    /\ Failed /\ error_number = "ZINT_ERROR_INVALID_CHECK" /\ errtxt = 275
    /\ symbology = "BARCODE_EANX_CC" /\ PlusCount = 0
    /\ rows = 3 /\ row_height[0] = 2 /\ row_height[1] = 2 /\ row_height[2] = 2
    /\ modules = {<<0, 1>>, <<0, 95>>, <<1, 0>>, <<1, 96>>, <<2, 1>>, <<2, 95>>}
    /\ text = <<>>

\* The ten characters of the ISBN-10 handed to isbn: a 9 character SBN gets a
\* '0' in front.
Isbn10 == IF Len(primary) = 9 THEN <<"0">> \o primary ELSE primary

\* The nine digits d of an ISBN-10 weighted 1 to 9, modulo 11.
IsbnMod11(d) ==
    (1 * DigitVal(d[1]) + 2 * DigitVal(d[2]) + 3 * DigitVal(d[3]) + 4 * DigitVal(d[4])
        + 5 * DigitVal(d[5]) + 6 * DigitVal(d[6]) + 7 * DigitVal(d[7])
        + 8 * DigitVal(d[8]) + 9 * DigitVal(d[9])) % 11

\* The ISBN-10 check character of nine digits: a digit, or 'X' for 10.
IsbnCheckChar(d) == IF IsbnMod11(d) = 10 THEN "X" ELSE NEON[IsbnMod11(d) + 1]

\* isbn has been handed ten characters (nine for an SBN) of which the first
\* nine are digits.
Isbn10Handed ==
    /\ Dispatched
    /\ symbology = "BARCODE_ISBNX"
    /\ Len(primary) \in {9, 10}
    /\ AllDigits(SubSeq(Isbn10, 1, 9))

\* C4: a 10-character ISBN, or a 9-character SBN with a '0' in front, is accepted
\* exactly when its tenth character is the mod-11 check character of its first
\* nine digits; when accepted it is encoded as the EAN-13 made of "978", the nine
\* digits and the EAN check digit of these twelve.
C4_Isbn10 ==
    Isbn10Handed =>
        /\ ~Failed <=> (IF Isbn10[10] = "x" THEN "X" ELSE Isbn10[10])
                           = IsbnCheckChar(SubSeq(Isbn10, 1, 9))
        /\ ~Failed =>
              \E twelve \in {<<"9", "7", "8">> \o SubSeq(Isbn10, 1, 9)} :
                  /\ first_part = twelve
                  /\ SubSeq(text, 1, 13) = twelve \o <<Mod10Check(twelve, 12, 1, 3)>>
                  /\ Len(text) \in {13, 16, 19}

\* An ISBN-10 with the check character 'X' has been encoded.
C4_Witness ==
    /\ Isbn10Handed /\ Succeeded
    /\ Len(primary) = 10 /\ primary[1] = "5" /\ primary[9] = "3" /\ primary[10] = "X"
    /\ text = <<"9", "7", "8", "5", "0", "0", "0", "0", "0", "0", "0", "3", "8">>

\* The primary part of a UPC-E request, with the zeroes that bring it to the
\* length of its variant: 6, or 7 with a number system digit (7, or 8 with one,
\* when the check digit is supplied).
UpcePadded ==
    LET short == IF symbology = "BARCODE_UPCE_CHK" THEN 7 ELSE 6
    IN  IF Len(ReqPrimary) < short
        THEN [i \in 1..(short - Len(ReqPrimary)) |-> "0"] \o ReqPrimary
        ELSE ReqPrimary

\* A UPC-E request of digits whose six compressed digits break a forbidden-value rule.
ForbiddenUpceRequest ==
    /\ symbology \in UpceClass
    /\ ReqSane
    /\ Len(ReqPrimary) <= (IF symbology = "BARCODE_UPCE_CHK" THEN 8 ELSE 7)
    /\ ForbiddenUpce(SixDigits(UpcePadded))

\* The call has returned the invalid-data error of the UPC-E encoder.
InvalidUpceData ==
    Failed /\ error_number = "ZINT_ERROR_INVALID_DATA" /\ errtxt \in {271, 272, 273}

\* C5, as stated: a UPC-E request whose six compressed digits break a
\* forbidden-value rule never succeeds, and the error it returns is always the
\* invalid-data one.
C5_ForbiddenUpce_AlwaysInvalidData ==
    ForbiddenUpceRequest =>
        /\ pc \notin {"addon", "raster", "shift", "crashed"} /\ ~Succeeded
        /\ pc = "done" => InvalidUpceData

\* C5, amended: a UPC-E request whose six compressed digits break a
\* forbidden-value rule never succeeds; it returns the invalid-data error when
\* its add-on part has at most 5 characters and no second '+', and the invalid-data
\* or the too-long error otherwise.
C5_ForbiddenUpce ==
    ForbiddenUpceRequest =>
        /\ pc \notin {"addon", "raster", "shift", "crashed"} /\ ~Succeeded
        /\ pc = "done" =>
              IF PlusCount <= 1 /\ Len(ReqAddon) <= 5
              THEN InvalidUpceData
              ELSE InvalidUpceData
                      \/ (error_number = "ZINT_ERROR_TOO_LONG" /\ errtxt \in {294, 290, 291})

\* A UPC-E code of mode 4 with digits[3] = 0, under number system 1 and with a
\* check digit, has been refused as invalid data.
C5_Witness ==
    /\ ForbiddenUpceRequest /\ InvalidUpceData /\ errtxt = 272
    /\ symbology = "BARCODE_UPCE_CHK" /\ Len(ReqPrimary) = 8
    /\ ReqPrimary[1] = "1" /\ ReqPrimary[5] = "0" /\ ReqPrimary[7] = "4"

\* upce has been handed a primary whose six compressed digits are digits and
\* break no forbidden-value rule.
ValidUpceHanded ==
    /\ Dispatched
    /\ symbology \in UpceClass
    /\ AllDigits(primary)
    /\ ~ForbiddenUpce(SixDigits(primary))

\* The leading digit of the equivalent: the supplied number system digit when it
\* is '1', and '0' otherwise.
LeadingDigit == IF HasSystemDigit(primary) /\ primary[1] = "1" THEN "1" ELSE "0"

\* C6: for a valid UPC-E code d0..d5 of mode d5, the UPC-A equivalent is the
\* leading digit, the manufacturer code and the product code: d0 d1 mode 0 0 and
\* 0 0 d2 d3 d4 for modes 0-2, d0 d1 d2 d3 0 and 0 0 0 0 d4 for mode 4,
\* d0 d1 d2 d3 d4 and 0 0 0 0 mode for modes 5-9; the leading digit is '1' when a
\* number system digit '1' is supplied and '0' otherwise.
C6_UpceExpansion ==
    ValidUpceHanded =>
        \E d \in {SixDigits(primary)} :
            /\ num_system = (IF LeadingDigit = "1" THEN 1 ELSE 0)
            /\ d[6] \in {"0", "1", "2"} =>
                  equivalent = <<LeadingDigit>> \o <<d[1], d[2], d[6], "0", "0">>
                                   \o <<"0", "0", d[3], d[4], d[5]>>
            /\ d[6] = "4" =>
                  equivalent = <<LeadingDigit>> \o <<d[1], d[2], d[3], d[4], "0">>
                                   \o <<"0", "0", "0", "0", d[5]>>
            /\ d[6] \in {"5", "6", "7", "8", "9"} =>
                  equivalent = <<LeadingDigit>> \o <<d[1], d[2], d[3], d[4], d[5]>>
                                   \o <<"0", "0", "0", "0", d[6]>>

\* A mode 4 code under number system 1 has been expanded and encoded.
C6_Witness ==
    /\ ValidUpceHanded /\ Succeeded
    /\ symbology = "BARCODE_UPCE" /\ primary = <<"1", "8", "9", "3", "7", "4", "4">>
    /\ equivalent = <<"1", "8", "9", "3", "7", "0", "0", "0", "0", "0", "4">>

\* A supplied leading digit other than 0 and 1 has been treated as number system 0.
C6_WitnessOtherSystem ==
    /\ ValidUpceHanded /\ Succeeded
    /\ symbology = "BARCODE_UPCE" /\ primary = <<"5", "0", "0", "3", "7", "4", "1">>
    /\ num_system = 0
    /\ equivalent = <<"0", "0", "0", "1", "0", "0", "0", "0", "3", "7", "4">>

\* upce has been handed a valid code of mode 3.
ValidMode3Handed == ValidUpceHanded /\ SixDigits(primary)[6] = "3"

\* C7, as stated: for a valid UPC-E code of mode 3 the equivalent is the number
\* system digit, the manufacturer code d0 d1 d2 0 0, and a product code made of
\* "000" and digits[4] alone (with a zero to fill the five digits).
C7_Mode3_ProductFromDigit4 ==
    ValidMode3Handed =>
        \E d \in {SixDigits(primary)} :
            /\ SubSeq(equivalent, 1, 6) = <<LeadingDigit>> \o <<d[1], d[2], d[3], "0", "0">>
            /\ SubSeq(equivalent, 7, 11) \in {<<"0", "0", "0", "0", d[5]>>,
                                              <<"0", "0", "0", d[5], "0">>}

\* C7, amended: for a valid UPC-E code of mode 3 the equivalent is the number
\* system digit, the manufacturer code d0 d1 d2 0 0, and the product code
\* 0 0 0 d3 d4.
C7_Mode3Expansion ==
    ValidMode3Handed =>
        \E d \in {SixDigits(primary)} :
            equivalent = <<LeadingDigit>> \o <<d[1], d[2], d[3], "0", "0">>
                             \o <<"0", "0", "0", d[4], d[5]>>

\* A mode 3 code whose digits[3] is not 0 has been expanded and encoded.
C7_Witness ==
    /\ ValidMode3Handed /\ Succeeded
    /\ symbology = "BARCODE_UPCE" /\ primary = <<"8", "9", "3", "7", "4", "3">>
    /\ equivalent = <<"0", "8", "9", "3", "0", "0", "0", "0", "0", "7", "4">>

\* s with zeroes in front up to n characters; a longer s is left as it is.
Pad(s, n) == IF Len(s) < n THEN [i \in 1..(n - Len(s)) |-> "0"] \o s ELSE s

\* The canonical length of a primary part of n characters for the symbology,
\* with or without an add-on part.
CanonicalLen(n, hasAddon) ==
    CASE symbology \in {"BARCODE_UPCA", "BARCODE_UPCA_CC"} -> 11
      [] symbology = "BARCODE_UPCA_CHK" -> 12
      [] symbology \in {"BARCODE_UPCE", "BARCODE_UPCE_CC"} -> IF n = 7 THEN 7 ELSE 6
      [] symbology = "BARCODE_UPCE_CHK" -> IF n = 8 THEN 8 ELSE 7
      [] symbology \in {"BARCODE_EANX", "BARCODE_EANX_CC"} ->
            IF ~hasAddon /\ symbology = "BARCODE_EANX" /\ n <= 5
            THEN (IF n <= 2 THEN 2 ELSE 5)
            ELSE (IF n <= 7 THEN 7 ELSE 12)
      [] symbology = "BARCODE_EANX_CHK" ->
            IF ~hasAddon /\ n <= 5
            THEN (IF n <= 2 THEN 2 ELSE 5)
            ELSE (IF n <= 8 THEN 8 ELSE 13)
      [] OTHER -> 9

\* The primary part of the request at its canonical length.
CanonicalPrimary == Pad(ReqPrimary, CanonicalLen(Len(ReqPrimary), ReqAddon # <<>>))

\* The add-on part of the request padded to 2 or 5 characters.
CanonicalAddon == IF ReqAddon = <<>> THEN <<>> ELSE Pad(ReqAddon, IF Len(ReqAddon) <= 2 THEN 2 ELSE 5)

\* ean_leading_zeroes has returned the normalised input.
Normalised ==
    \/ pc \in {"split", "encode", "addon", "raster", "shift", "crashed"}
    \/ pc = "done" /\ errtxt \notin {283, 284, 285, 294}

\* The lengths of primary the encoder of the symbology is made for.
EncoderLengths ==
    CASE symbology \in UpcaClass -> {11, 12}
      [] symbology \in {"BARCODE_EANX", "BARCODE_EANX_CHK"} -> {2, 5, 7, 8, 12, 13}
      [] symbology = "BARCODE_EANX_CC" -> {7, 12, 13}
      [] symbology \in {"BARCODE_UPCE", "BARCODE_UPCE_CC"} -> {6, 7}
      [] symbology = "BARCODE_UPCE_CHK" -> {6, 7, 8}
      [] OTHER -> {9, 10, 13}

\* C8: normalisation of an input with at most 13 primary and 5 add-on characters
\* splits it at the first '+' and returns the primary part, unchanged but for
\* zeroes in front up to the canonical length of the variant, and the add-on part
\* with zeroes in front up to 2 or 5 characters; a primary and an add-on that the
\* encoders work on have a canonical length, the add-on 0, 2 or 5.
C8_Normalisation ==
    /\ (Normalised /\ Len(ReqPrimary) <= 13 /\ Len(ReqAddon) <= 5) =>
          local_source = CanonicalPrimary
                            \o (IF ReqAddon = <<>> THEN <<>> ELSE <<"+">> \o CanonicalAddon)
    /\ (Dispatched /\ errtxt # 278) =>
          /\ primary = CanonicalPrimary
          /\ Len(primary) \in EncoderLengths
          /\ second_part = CanonicalAddon
          /\ Len(second_part) \in {0, 2, 5}

\* C8 for the requests with at most one '+': the property holds for them.
C8_Normalisation_OnePlus == PlusCount <= 1 => C8_Normalisation

\* C8: an input with a second '+' has lost its last digit and most of its
\* primary part.
C8_DigitsDropped ==
    /\ Succeeded /\ symbology = "BARCODE_EANX"
    /\ source = <<"0", "+", "2", "+", "3", "4", "5">>
    /\ local_source = <<"0", "0", "0", "0", "0", "0", "0", "+", "0", "2", "+", "3", "4">>
    /\ primary = <<"0", "0">>
    /\ second_part = <<"3", "4">>

\* The eight characters under a UPC-E symbol but the last: the number system
\* digit ('0' when the request has none) and the six compressed digits.
UpceBody ==
    LET cp == CanonicalPrimary
    IN  IF HasSystemDigit(cp) THEN SubSeq(cp, 1, 7) ELSE <<"0">> \o SubSeq(cp, 1, 6)

\* The check digit of a UPC-E body b: the UPC check digit of its UPC-A equivalent,
\* under number system 1 for a leading '1' and number system 0 otherwise.
UpceCheck(b) ==
    Mod10Check(upce_equivalent(IF b[1] = "1" THEN 1 ELSE 0, <<b[1]>>, SubSeq(b, 2, 7)),
               11, 3, 1)

\* The digits of the canonical primary from which a check digit is computed or
\* against which it is compared are digits.
PrimaryDigitsOk ==
    LET cp == CanonicalPrimary
    IN  IF symbology = "BARCODE_ISBNX" /\ Len(cp) \in {9, 10}
        THEN AllDigits(SubSeq(Pad(cp, 10), 1, 9))
        ELSE AllDigits(cp)

\* The text under the primary symbol: the canonical primary with its check digit.
PrimaryText ==
    LET cp == CanonicalPrimary
    IN  CASE symbology \in UpcaClass /\ Len(cp) = 11 -> cp \o <<Mod10Check(cp, 11, 3, 1)>>
          [] symbology \in EanClass /\ Len(cp) = 7 -> cp \o <<Mod10Check(cp, 7, 3, 1)>>
          [] symbology \in EanClass /\ Len(cp) = 12 -> cp \o <<Mod10Check(cp, 12, 1, 3)>>
          [] symbology \in UpceClass /\ Len(cp) \in {6, 7, 8} -> UpceBody \o <<UpceCheck(UpceBody)>>
          [] symbology = "BARCODE_ISBNX" /\ Len(cp) \in {9, 10} ->
                LET twelve == <<"9", "7", "8">> \o SubSeq(Pad(cp, 10), 1, 9)
                IN  twelve \o <<Mod10Check(twelve, 12, 1, 3)>>
          [] OTHER -> cp

\* The text of the request: the primary text, and '+' and the padded add-on when
\* the request has a non-empty add-on part.
ExpectedText ==
    PrimaryText \o (IF ReqAddon = <<>> THEN <<>> ELSE <<"+">> \o CanonicalAddon)

\* C9: on every successful call the text is the canonical zero-padded primary
\* digit string with its check digit as last character, followed by '+' and the
\* zero-padded add-on exactly when the request has a non-empty add-on part.
C9_Text == Succeeded => (PrimaryDigitsOk /\ text = ExpectedText)

\* C9 for the requests of digits with at most one '+': the property holds for them.
C9_Text_OnePlus == (PlusCount <= 1 /\ PrimaryDigitsOk) => (Succeeded => text = ExpectedText)

\* C9: an input with a second '+' has been encoded with a text that is not the
\* one of its primary and add-on parts.
C9_WrongText ==
    /\ Succeeded /\ symbology = "BARCODE_EANX"
    /\ source = <<"0", "+", "2", "+", "3", "4", "5">>
    /\ text = <<"0", "0", "+", "3", "4">>
    /\ ExpectedText = <<"0", "0", "0", "0", "0", "0", "0", "0", "+", "2", "+", "3", "4", "5">>

\* The call has returned the invalid-character error.
InvalidCharacter ==
    Failed /\ error_number = "ZINT_ERROR_INVALID_DATA" /\ errtxt \in {284, 285, 277}

\* A request of a variant that is not ISBN holds a character other than the
\* digits and '+'.
StrangeCharacter ==
    /\ symbology # "BARCODE_ISBNX"
    /\ Len(source) <= 19
    /\ \E i \in 1..Len(source) : source[i] \notin Digit \cup {"+"}

\* An ISBN request, of parts that are not too long and of one '+' at most, holds
\* an 'X' or 'x' in its primary part elsewhere than as last character of an
\* ISBN-10 (of an SBN, or of a shorter input, which is padded to an SBN).
MisplacedX ==
    /\ symbology = "BARCODE_ISBNX"
    /\ ReqSane /\ PlusCount <= 1
    /\ Len(ReqPrimary) <= 13 /\ Len(ReqAddon) <= 5
    /\ \E i \in 1..Len(ReqPrimary) :
          /\ ReqPrimary[i] \in {"X", "x"}
          /\ ~(i = Len(ReqPrimary) /\ Len(ReqPrimary) <= 10)

\* C10, for the variants that are not ISBN: an input holding a character other
\* than the digits and '+' fails with the invalid-character error.
C10_NonIsbnCharacters ==
    StrangeCharacter => (pc \in {"start", "done"} /\ (pc = "done" => InvalidCharacter))

\* C10: an input of a variant that is not ISBN holding a character other than the
\* digits and '+' fails with the invalid-character error; an ISBN input holding 'X'
\* or 'x' in its primary part elsewhere than as the check character of an ISBN-10
\* fails with the invalid-character error.
C10_CharacterValidation ==
    /\ C10_NonIsbnCharacters
    /\ MisplacedX => (~Succeeded /\ pc \notin {"addon", "raster", "shift", "crashed"}
                         /\ (pc = "done" => InvalidCharacter))

\* C10: an ISBN-10 with 'X' as ninth character has been encoded.
C10_MisplacedXAccepted ==
    /\ MisplacedX /\ Succeeded
    /\ source = <<"5", "0", "0", "0", "0", "0", "0", "0", "X", "3">>
    /\ text = <<"9", "7", "8", "5", "0", "0", "0", "0", "0", "0", "0", "X", "0">>

\* An ISBN request of twelve digits that start with 978 or 979, without add-on.
Isbn12Request ==
    /\ symbology = "BARCODE_ISBNX"
    /\ PlusCount = 0
    /\ Len(source) = 12 /\ AllDigits(source)
    /\ SubSeq(source, 1, 3) \in {<<"9", "7", "8">>, <<"9", "7", "9">>}

\* C11: an ISBN request whose primary part is twelve digits with the prefix 978
\* or 979 succeeds, and its text is the twelve digits and their EAN check digit.
C11_Isbn12Succeeds ==
    (Isbn12Request /\ pc = "done") =>
        (Succeeded /\ text = source \o <<Mod10Check(source, 12, 1, 3)>>)

\* C11: the twelve digits 978019501109 have been refused by isbn for their length.
C11_Isbn12Refused ==
    /\ Isbn12Request /\ Failed
    /\ source = <<"9", "7", "8", "0", "1", "9", "5", "0", "1", "1", "0", "9">>
    /\ primary = source
    /\ error_number = "ZINT_ERROR_TOO_LONG" /\ errtxt = 278
    /\ text = <<>>

\* The same twelve digits succeed as a plain EAN-13, with the check digit 8.
C11_Ean12Succeeds ==
    /\ symbology = "BARCODE_EANX" /\ Succeeded
    /\ source = <<"9", "7", "8", "0", "1", "9", "5", "0", "1", "1", "0", "9">>
    /\ text = source \o <<"8">>

\* The encoder of a composite symbology has been called.
CompositeDispatched == symbology \in Composite /\ Dispatched

\* The width class of the linear symbol of a composite request: 67 modules for
\* EAN-8, 51 for UPC-E, 95 for EAN-13 and UPC-A.
WidthClass ==
    CASE symbology = "BARCODE_EANX_CC" -> (IF Len(primary) = 7 THEN 67 ELSE 95)
      [] symbology = "BARCODE_UPCA_CC" -> 95
      [] OTHER -> 51

\* The columns of the modules set in row r.
ColumnsOf(r) == {m[2] : m \in {x \in modules : x[1] = r}}

\* Three rows of height 2 are reserved in front of the row of the linear symbol.
ThreeRowsReserved ==
    /\ rows = (IF Succeeded \/ pc = "shift" THEN 4 ELSE 3)
    /\ row_height[0] = 2 /\ row_height[1] = 2 /\ row_height[2] = 2
    /\ row_height[3] = 0

\* C12, as stated: a composite request handed to an encoder has three rows of
\* height 2 reserved, and in each of them exactly the two modules at the columns
\* 1 and W set, W being 95 for EAN-13 and UPC-A, 67 for EAN-8, 51 for UPC-E.
C12_SeparatorsAtOneAndW ==
    CompositeDispatched =>
        /\ ThreeRowsReserved
        /\ \A r \in 0..2 : ColumnsOf(r) = {1, WidthClass}

\* C12, amended: a composite request handed to an encoder has three rows of
\* height 2 reserved, with exactly two modules set in each: at the columns 1 and
\* W in the first and the third, at the columns 0 and W + 1 in the second.
C12_Separators ==
    CompositeDispatched =>
        /\ ThreeRowsReserved
        /\ ColumnsOf(0) = {1, WidthClass}
        /\ ColumnsOf(1) = {0, WidthClass + 1}
        /\ ColumnsOf(2) = {1, WidthClass}

\* A composite EAN-13 of 13 digits has been encoded under its three separator rows.
C12_Witness ==
    /\ CompositeDispatched /\ Succeeded
    /\ symbology = "BARCODE_EANX_CC" /\ Len(primary) = 13
    /\ rows = 4
    /\ {m \in modules : m[1] < 3}
          = {<<0, 1>>, <<0, 95>>, <<1, 0>>, <<1, 96>>, <<2, 1>>, <<2, 95>>}

\* A composite EAN-8 and a composite UPC-E have their separators at 67 and 51.
C12_WitnessNarrow ==
    /\ CompositeDispatched /\ Succeeded
    /\ \/ symbology = "BARCODE_EANX_CC" /\ Len(primary) = 7 /\ ColumnsOf(2) = {1, 67}
       \/ symbology = "BARCODE_UPCE_CC" /\ Len(primary) = 6 /\ ColumnsOf(2) = {1, 51}

\* The step that ends a successful call: for a composite symbology the module
\* at each column c >= 1 of the last row becomes the one that was at c - 1,
\* column 0 becomes clear, the other rows stay and the width grows by 2; for the
\* other symbologies nothing moves.
ShiftStep ==
    pc = "shift" =>
        IF symbology \in Composite
        THEN /\ \A c \in {m[2] : m \in modules'} \cup {m[2] + 1 : m \in modules} :
                   c >= 1 => (<<rows - 1, c>> \in modules' <=> <<rows - 1, c - 1>> \in modules)
             /\ <<rows - 1, 0>> \notin modules'
             /\ {m \in modules' : m[1] # rows - 1} = {m \in modules : m[1] # rows - 1}
             /\ width' = width + 2
        ELSE modules' = modules /\ width' = width

\* C13: for the composite variants, after the pattern is rasterized the last row
\* is shifted right by one column (the module at c >= 1 is the one that was at
\* c - 1, column 0 is clear) and no other row is modified; for the other variants
\* no shift happens.
C13_LastRowShifted == [][ShiftStep]_vars

\* A composite EAN-13 has been encoded: the start guard of its row, bars at the
\* columns 0 and 2 when rasterized, stands at the columns 1 and 3.
C13_Witness ==
    /\ Succeeded /\ symbology = "BARCODE_EANX_CC" /\ Len(primary) = 13
    /\ rows = 4 /\ width = 97
    /\ <<3, 0>> \notin modules /\ <<3, 1>> \in modules
    /\ <<3, 2>> \notin modules /\ <<3, 3>> \in modules
    /\ <<3, 95>> \in modules /\ <<3, 96>> \notin modules

\* A plain EAN-13 has been encoded: its start guard stands at the columns 0 and 2.
C13_WitnessNoShift ==
    /\ Succeeded /\ symbology = "BARCODE_EANX" /\ Len(primary) = 13
    /\ rows = 1 /\ width = 95
    /\ <<0, 0>> \in modules /\ <<0, 1>> \notin modules /\ <<0, 2>> \in modules
    /\ <<0, 94>> \in modules

\* The add-on gap the specification gives for the request: the caller's width
\* when it is in the range of the symbology, the minimum of the range otherwise.
ExpectedGap ==
    IF symbology \in UpcaClass
    THEN (IF option_2 \in 9..12 THEN option_2 ELSE 9)
    ELSE (IF option_2 \in 7..12 THEN option_2 ELSE 7)

\* The step that appends an add-on to the pattern of a primary symbol.
AddOnAppended == pc = "addon" /\ pc' = "raster" /\ Len(second_part) \in {2, 5}

\* The step that appends an add-on keeps the pattern of the primary, an odd
\* number of runs, and puts one run of the gap width and then the start guard
\* "112" after it.
GapStep ==
    AddOnAppended =>
        /\ Take(dest', Len(dest)) = dest
        /\ Len(dest) % 2 = 1
        /\ ctoi(At(dest', Len(dest))) = ExpectedGap
        /\ SubSeq(dest', Len(dest) + 2, Len(dest) + 4) = <<"1", "1", "2">>

\* The gap run follows the stop guard of the primary.
GapAfterStopGuard ==
    AddOnAppended => SubSeq(dest, Len(dest) - 2, Len(dest)) = <<"1", "1", "1">>

\* A request of two or five digits and no add-on separator under the EAN
\* symbologies: a standalone EAN-2 or EAN-5 symbol.
StandaloneAddOn ==
    /\ symbology \in {"BARCODE_EANX", "BARCODE_EANX_CHK"}
    /\ PlusCount = 0 /\ Len(source) \in {2, 5}

\* The pattern of a standalone symbol starts with the start guard and has the
\* runs of the guard, the digits and the glyph separators only.
StandaloneHasNoGap ==
    StandaloneAddOn /\ Succeeded =>
        /\ Take(dest, 3) = <<"1", "1", "2">>
        /\ Len(dest) = (IF Len(source) = 2 THEN 13 ELSE 31)

\* C14: an add-on emitted after a primary symbol is preceded by one run-length
\* character of the gap width - the caller's width if it is in 9..12 (UPC-A
\* class) or 7..12 (the other symbologies), else 9 or 7 - directly after the
\* stop guard of the primary and directly before the start guard of the add-on,
\* at a space position (the primary has an odd number of runs); a standalone
\* EAN-2 or EAN-5 symbol has no gap character.
C14_AddOnGap == [][GapStep /\ GapAfterStopGuard]_vars /\ []StandaloneHasNoGap

\* The same without the stop guard of the primary.
C14_AddOnGap_AnyPrimary == [][GapStep]_vars /\ []StandaloneHasNoGap

\* The stop guard, for the requests with one add-on separator.
C14_AddOnGap_OnePlus == [][PlusCount = 1 => GapStep /\ GapAfterStopGuard]_vars

\* An EAN-2 symbol was drawn for the primary "00" that the second '+' leaves of
\* the request, and the gap run follows the last digit of it.
C14_GapAfterDigit ==
    /\ Succeeded /\ symbology = "BARCODE_EANX" /\ PlusCount = 2
    /\ primary = <<"0", "0">> /\ second_part = <<"1", "2">>
    /\ SubSeq(dest, 1, 17)
          = <<"1", "1", "2", "3", "2", "1", "1", "1", "1", "3", "2", "1", "1",
              "7", "1", "1", "2">>

\* A UPC-A with a 5-digit add-on and the caller's gap of 10: the gap run "A"
\* stands after the 59 runs of the primary, between "111" and "112".
C14_WitnessOverride ==
    /\ Succeeded /\ symbology = "BARCODE_UPCA" /\ PlusCount = 1 /\ option_2 = 10
    /\ Len(second_part) = 5
    /\ SubSeq(dest, 57, 63) = <<"1", "1", "1", "A", "1", "1", "2">>

\* The digits drawn as an add-on symbol: the add-on part, or the primary of a
\* standalone EAN-2 or EAN-5.
EmittedAddOn ==
    IF second_part # <<>> THEN second_part
    ELSE IF symbology \in {"BARCODE_EANX", "BARCODE_EANX_CHK"} /\ Len(primary) \in {2, 5}
         THEN primary
         ELSE <<>>

\* The add-on pattern is complete: the call is past the add-on switch.
AddOnDrawn == pc \in {"raster", "shift"} \/ Succeeded

\* EAN-2 "12" with parity "AA": start guard, 1 of set A, separator, 2 of set A.
Ean2Pattern12 ==
    <<"1", "1", "2">> \o <<"2", "2", "2", "1">> \o <<"1", "1">> \o <<"2", "1", "2", "2">>

\* EAN-2 "12" with parity "BA": start guard, 1 of set B, separator, 2 of set A.
Ean2Pattern12_BA ==
    <<"1", "1", "2">> \o <<"1", "2", "2", "2">> \o <<"1", "1">> \o <<"2", "1", "2", "2">>

\* C15: the 2-digit add-on "12" has the parity key (10*1+2) mod 4 = 0 and is
\* drawn with the parity "AA" of the EAN-2 table: both digits from set A.
C15_Ean2Parity ==
    AddOnDrawn /\ EmittedAddOn = <<"1", "2">> =>
        /\ add_on_key(EmittedAddOn, 2) = (10 * 1 + 2) % 4
        /\ add_on_key(EmittedAddOn, 2) = 0
        /\ add_on_parity(EmittedAddOn, 2) = <<"A", "A">>
        /\ Len(dest) >= 13
        /\ SubSeq(dest, Len(dest) - 12, Len(dest)) = Ean2Pattern12

\* C15 as stated: the key of "12" is 2 and the parity is "BA", the first digit
\* from set B and the second from set A.
C15_Ean2Parity_KeyTwo ==
    AddOnDrawn /\ EmittedAddOn = <<"1", "2">> =>
        /\ add_on_key(EmittedAddOn, 2) = 2
        /\ add_on_parity(EmittedAddOn, 2) = <<"B", "A">>
        /\ Len(dest) >= 13
        /\ SubSeq(dest, Len(dest) - 12, Len(dest)) = Ean2Pattern12_BA

\* The standalone EAN-2 symbol "12" has been encoded.
C15_Witness ==
    /\ Succeeded /\ symbology = "BARCODE_EANX" /\ source = <<"1", "2">>
    /\ dest = Ean2Pattern12 /\ text = <<"1", "2">>

\* "12" has been encoded as the add-on of an EAN-13.
C15_WitnessAfterPrimary ==
    /\ Succeeded /\ symbology = "BARCODE_EANX" /\ PlusCount = 1 /\ Len(primary) = 13
    /\ second_part = <<"1", "2">>
    /\ SubSeq(dest, 60, 73) = <<"7">> \o Ean2Pattern12

\* Zero suppression of a UPC-A number e of 11 digits (number system, five
\* manufacturer digits, five product digits), as EN 797 gives it: the number
\* system and the six compressed digits, or <<>> when e cannot be compressed.
Recompress(e) ==
    LET Zero(a, b) == \A k \in a..b : e[k] = "0"
    IN  IF Len(e) # 11 THEN <<>>
        ELSE IF e[4] \in {"0", "1", "2"} /\ Zero(5, 8)
        THEN <<e[1], e[2], e[3], e[9], e[10], e[11], e[4]>>
        ELSE IF Zero(5, 9)
        THEN <<e[1], e[2], e[3], e[4], e[10], e[11], "3">>
        ELSE IF Zero(6, 10)
        THEN <<e[1], e[2], e[3], e[4], e[5], e[11], "4">>
        ELSE IF Zero(7, 10) /\ e[11] \in {"5", "6", "7", "8", "9"}
        THEN <<e[1], e[2], e[3], e[4], e[5], e[6], e[11]>>
        ELSE <<>>

\* upce has been handed a valid code of number system 0 or 1.
ValidSystemUpceHanded == ValidUpceHanded /\ SystemDigit(primary) \in {"0", "1"}

\* The codes the one handed to upce is compared with: the same two leading
\* digits (the expansion copies them) and every mode digit.
OtherCodes ==
    {<<primary[IF HasSystemDigit(primary) THEN 2 ELSE 1],
       primary[IF HasSystemDigit(primary) THEN 3 ELSE 2], c, d, e, m>> :
        c \in {"0", "1", "2", "3", "7"}, d \in {"0", "1", "4", "7"},
        e \in {"0", "1", "4", "5"}, m \in Digit}

\* Recompressing the expansion gives back the number system and the six digits.
UpceRoundTrip ==
    ValidSystemUpceHanded =>
        Recompress(equivalent) = <<SystemDigit(primary)>> \o SixDigits(primary)

\* No other valid code, of either number system, has the same expansion.
UpceNoCollision ==
    ValidSystemUpceHanded /\ pc = "addon" =>
        \A n \in {0, 1} : \A o \in OtherCodes :
            (~ForbiddenUpce(o) /\ <<itoc(n)>> \o o # <<SystemDigit(primary)>> \o SixDigits(primary))
                => upce_equivalent(n, <<itoc(n)>>, o) # equivalent

\* C16: UPC-E expansion is invertible on valid codes: for a number system in
\* {0, 1} two distinct 6-digit codes that pass the forbidden-value checks never
\* have the same 11-digit equivalent, and recompressing an expansion recovers
\* the six digits and the number system.
C16_UpceInvertible == UpceRoundTrip /\ UpceNoCollision

\* A code of mode 2 under number system 1 has been expanded.
C16_Witness ==
    /\ ValidSystemUpceHanded /\ pc = "addon"
    /\ SystemDigit(primary) = "1" /\ SixDigits(primary)[6] = "2"
    /\ equivalent[1] = "1" /\ equivalent[4] = "2"
    /\ Recompress(equivalent) = <<"1">> \o SixDigits(primary)

\* Without the forbidden-value checks the expansion is not invertible: a code of
\* mode 3 with third digit 0 has the equivalent of a code of mode 0.
C16_WitnessForbiddenCollides ==
    /\ Failed /\ errtxt = 271 /\ symbology = "BARCODE_UPCE" /\ Len(primary) = 6
    /\ primary[3] = "0"
    /\ upce_equivalent(0, <<"0">>, primary)
          = upce_equivalent(0, <<"0">>, [primary EXCEPT ![6] = "0"])

\* The sizes of the per-call buffers.
BufferSize ==
    [first_part |-> 14, second_part |-> 6, zfirst_part |-> 14, zsecond_part |-> 6,
     local_source |-> 20, gtin_upca |-> 13, gtin_ean13 |-> 14, gtin_ean8 |-> 10,
     hrt |-> 9, equivalent |-> 12, parity_ean13 |-> 6, parity_upce |-> 8,
     parity_add_on |-> 6]

\* The characters of the request after its first '+' that are not '+'.
AddonCharacters == Cardinality({i \in (Len(ReqPrimary) + 2)..Len(source) : source[i] # "+"})

\* The request is over one of the length limits.
OverLength == Len(source) > 19 \/ Len(ReqPrimary) > 13 \/ AddonCharacters > 5

\* The call has returned the too-long error.
TooLong == Failed /\ error_number = "ZINT_ERROR_TOO_LONG"

\* No encoder has been called and nothing has been drawn.
NothingAssembled ==
    /\ primary = <<>> /\ dest = <<>> /\ text = <<>> /\ addon_parity = <<>>
    /\ rows = 0 /\ modules = {} /\ equivalent = <<>>

\* A request over a length limit is refused before anything else is done: as
\* too long, or for its characters when it has at most 19 of them and one that
\* the symbology does not accept.
OverLengthRefused ==
    OverLength =>
        /\ pc \in {"start", "normalize", "done"}
        /\ pc = "done" =>
              IF Len(source) > 19 \/ ReqSane
              THEN TooLong /\ errtxt \in {283, 294}
              ELSE Failed /\ errtxt \in {284, 285}
        /\ NothingAssembled

\* The writes of ean_leading_zeroes stay inside its buffers and local_source.
LeadingZeroesInBounds ==
    pc \notin {"start", "normalize"} /\ errtxt \notin {283, 284, 285, 294} =>
        \A b \in DOMAIN leading_zeroes_writes(symbology, source) :
            leading_zeroes_writes(symbology, source)[b] < BufferSize[b]

\* The writes of the split loop of eanx stay inside first_part and second_part.
SplitInBounds ==
    pc \notin {"start", "normalize", "split"} /\ errtxt \notin {283, 284, 285, 294} =>
        /\ eanx_writes(local_source, with_addon).first_part < BufferSize.first_part
        /\ eanx_writes(local_source, with_addon).second_part < BufferSize.second_part
        /\ Len(local_source) < BufferSize.local_source

\* The buffer that holds the gtin of the encoder of the symbology.
GtinSize ==
    IF symbology \in UpcaClass THEN BufferSize.gtin_upca
    ELSE IF symbology \in EanClass /\ Len(primary) \in {7, 8} THEN BufferSize.gtin_ean8
    ELSE BufferSize.gtin_ean13

\* The writes of the encoder stay inside its buffers.
EncoderInBounds ==
    Dispatched =>
        LET w == encoder_writes(symbology, primary, Len(primary))
        IN  /\ w.gtin < GtinSize
            /\ w.hrt < BufferSize.hrt
            /\ w.equivalent < BufferSize.equivalent
            /\ w.first_part < BufferSize.first_part
            /\ w.parity < (IF symbology \in UpceClass THEN BufferSize.parity_upce
                           ELSE BufferSize.parity_ean13)

\* The string add_on has copied into parity[] fits, with its NUL.
AddOnParityInBounds == pc # "crashed" /\ Len(addon_parity) < BufferSize.parity_add_on

\* C17: an input over a length limit (raw length above 19, primary part above
\* 13, add-on part above 5) is refused with the too-long error before any table
\* lookup or pattern assembly; every other input is processed with every write
\* to the per-call buffers inside the buffer, for every symbology and any number
\* and placement of '+'.
C17_BufferBounds ==
    /\ OverLengthRefused
    /\ LeadingZeroesInBounds
    /\ SplitInBounds
    /\ EncoderInBounds
    /\ AddOnParityInBounds

\* The same without the parity buffer of add_on.
C17_BufferBounds_BeforeAddOn ==
    OverLengthRefused /\ LeadingZeroesInBounds /\ SplitInBounds /\ EncoderInBounds

\* The whole of it for the requests without 'X' or 'x' in the add-on part.
C17_BufferBounds_DigitAddOn ==
    (\A i \in 1..Len(ReqAddon) : ReqAddon[i] \notin {"X", "x"}) => C17_BufferBounds

\* add_on has copied a string of six characters into parity[6].
C17_ParityOverrun ==
    /\ symbology = "BARCODE_ISBNX" /\ pc = "done" /\ error_number = "OK"
    /\ second_part = <<"0", "X">>
    /\ Len(addon_parity) = 6

\* C18: whenever the call ends in failure, the failure is detected before any
\* run-length character has been appended to the pattern: assembly never starts
\* on a request that is rejected, for every symbology and every error.
C18_NoAssemblyOnFailure == Failed => dest = <<>>

\* The same for every error but the check digit error of upce.
C18_NoAssemblyOnFailure_NotUpceCheck == Failed /\ errtxt # 274 => dest = <<>>

\* A UPC-E request with a wrong check digit has been refused after upce drew
\* the whole symbol: start guard, six digits, stop guard.
C18_PatternBeforeCheck ==
    /\ Failed /\ error_number = "ZINT_ERROR_INVALID_CHECK" /\ errtxt = 274
    /\ symbology = "BARCODE_UPCE_CHK" /\ PlusCount = 0
    /\ Len(dest) = 3 + 6 * 4 + 6
    /\ Take(dest, 3) = <<"1", "1", "1">>
    /\ SubSeq(dest, 28, 33) = <<"1", "1", "1", "1", "1", "1">>
    /\ text = <<>>

\* A pattern encoder (upca, upce, ean13, ean8, add_on) has drawn the primary:
\* first_part is the string it drew from, after isbn has rewritten it.
PrimaryDrawn == pc \in {"addon", "raster", "shift", "crashed"} \/ Succeeded

\* add_on is called, or has been called, on second_part.
AddOnCalled == PrimaryDrawn /\ Len(second_part) \in {2, 5}

\* The parity key of the add-on is an index of its table.
AddOnKeyInDomain ==
    IF Len(second_part) = 2 THEN add_on_key(second_part, 2) \in 0..3
    ELSE add_on_key(second_part, 5) \in 0..9

\* The key into the UPC-E parity tables, the check digit of the equivalent.
UpceKeyInDomain ==
    symbology \in UpceClass /\ PrimaryDrawn => ctoi(upc_check(equivalent, 11)) \in 0..9

\* C19: for every input that passes the character and length validation every
\* lookup key is in the domain of its table: the characters looked up in the
\* sets A and B and in the EAN-13 parity table are digits, the EAN-2 key is in
\* 0..3, the EAN-5 key in 0..9 and the UPC-E check digit key in 0..9; every
\* character of the primary and add-on strings an encoder draws is a digit, also
\* for inputs with more than one '+'.
C19_LookupKeysInDomain ==
    /\ PrimaryDrawn => AllDigits(first_part)
    /\ AddOnCalled => AllDigits(second_part) /\ AddOnKeyInDomain
    /\ UpceKeyInDomain
    /\ pc # "crashed"

\* The same for the requests without 'X' or 'x' before the last character of the
\* primary part or in the add-on part, and with at most one '+'.
C19_LookupKeysInDomain_PlainRequest ==
    (PlusCount <= 1 /\ ~MisplacedX /\ \A i \in 1..Len(ReqAddon) : ReqAddon[i] \notin {"X", "x"})
        => C19_LookupKeysInDomain

\* An ISBN with 'X' inside has been drawn: ean13 looked 'X' up in set A.
C19_NonDigitDrawn ==
    /\ Succeeded /\ symbology = "BARCODE_ISBNX" /\ PlusCount = 0
    /\ Len(first_part) = 12 /\ "X" \in Range(first_part)

\* The split of a request with three '+' has left a '+' in the add-on part, and
\* add_on is called with a parity key below zero.
C19_PlusInAddOn ==
    /\ pc = "addon" /\ symbology = "BARCODE_EANX" /\ PlusCount = 3
    /\ second_part = <<"+", "3">>
    /\ add_on_key(second_part, 2) = -3

\* The call has drawn a primary symbol of full width, and which one.
DrawnUpca == PrimaryDrawn /\ symbology \in UpcaClass
DrawnEan8 == PrimaryDrawn /\ symbology \in EanClass /\ Len(primary) \in {7, 8}
DrawnEan13 ==
    PrimaryDrawn /\ (symbology = "BARCODE_ISBNX"
                        \/ (symbology \in EanClass /\ Len(primary) \in {12, 13}))

\* The number the symbol shows, n characters: the start of the text.
Gtin(n) == Take(text, n)

\* The patterns of the characters g[from..to], every one from set A, or from set A
\* or B as the parity string p says (its first character for g[from]).
RECURSIVE SetPatterns(_, _, _, _)
SetPatterns(g, from, to, p) ==
    IF from > to THEN <<>>
    ELSE (IF p # <<>> /\ p[1] = "B" THEN EANsetB ELSE EANsetA)[DigitVal(g[from]) + 1]
            \o SetPatterns(g, from + 1, to, IF p = <<>> THEN p ELSE Tail(p))

\* The layout of UPC-A (n = 12) and EAN-8 (n = 8).
HalvesLayout(g, n) ==
    <<"1", "1", "1">> \o SetPatterns(g, 1, n \div 2, <<>>)
        \o <<"1", "1", "1", "1", "1">> \o SetPatterns(g, n \div 2 + 1, n, <<>>)
        \o <<"1", "1", "1">>

\* The layout of EAN-13: g[1] is the leading digit, which is not drawn.
Ean13Layout(g) ==
    <<"1", "1", "1">> \o SetPatterns(g, 2, 2, <<>>)
        \o SetPatterns(g, 3, 7, EAN13Parity[DigitVal(g[1]) + 1])
        \o <<"1", "1", "1", "1", "1">> \o SetPatterns(g, 8, 13, <<>>)
        \o <<"1", "1", "1">>

\* The modules of a run-length pattern.
RECURSIVE Modules(_)
Modules(p) == IF p = <<>> THEN 0 ELSE ctoi(Head(p)) + Modules(Tail(p))

\* After the add-on step dest holds the primary pattern of len runs, alone when
\* there is no add-on, and it is wide modules wide; when the call has returned
\* without add-on the symbol is that wide (and 2 more for a composite).
LaidOut(g, n, layout, len, wide) ==
    /\ Len(text) >= n /\ AllDigits(g)
    /\ Take(dest, len) = layout
    /\ second_part = <<>> => dest = layout
    /\ Modules(Take(dest, len)) = wide
    /\ Succeeded /\ second_part = <<>> =>
          width = (IF symbology \in Composite THEN wide + 2 ELSE wide)

\* C20: on success UPC-A and EAN-8 are start guard, the first half of the
\* digits, centre guard, the second half, stop guard, every digit from set A;
\* EAN-13 draws no pattern for its leading digit, the digit at index 1 and the
\* digits 7..12 from set A and the digits 2..6 from set A or B as the parity
\* entry of the leading digit says; the width is 95 modules (UPC-A, EAN-13) or
\* 67 (EAN-8); UPC-A "036000291452" validates with the text "036000291452".
C20_Layout ==
    /\ DrawnUpca => LaidOut(Gtin(12), 12, HalvesLayout(Gtin(12), 12), 59, 95)
    /\ DrawnEan8 => LaidOut(Gtin(8), 8, HalvesLayout(Gtin(8), 8), 43, 67)
    /\ DrawnEan13 => LaidOut(Gtin(13), 13, Ean13Layout(Gtin(13)), 59, 95)
    /\ (symbology \in UpcaClass /\ pc = "done"
            /\ source = <<"0", "3", "6", "0", "0", "0", "2", "9", "1", "4", "5", "2">>)
          => Succeeded /\ text = source

\* The same for the symbols whose number is made of digits.
C20_Layout_Digits ==
    (DrawnEan13 => AllDigits(first_part)) => C20_Layout

\* UPC-A "036000291452" has been encoded.
C20_Witness ==
    /\ Succeeded /\ symbology = "BARCODE_UPCA"
    /\ source = <<"0", "3", "6", "0", "0", "0", "2", "9", "1", "4", "5", "2">>
    /\ text = source /\ width = 95 /\ Len(dest) = 59
    /\ Take(dest, 7) = <<"1", "1", "1", "3", "2", "1", "1">>
    /\ SubSeq(dest, 28, 32) = <<"1", "1", "1", "1", "1">>

\* An EAN-13 with leading digit 9 (parity "BBABA") and an EAN-8 have been encoded.
C20_WitnessEan ==
    /\ Succeeded /\ symbology = "BARCODE_EANX" /\ second_part = <<>>
    /\ \/ Len(text) = 13 /\ text[1] = "9" /\ width = 95
       \/ Len(text) = 8 /\ width = 67

\* An ISBN with 'X' inside has been drawn as an EAN-13 that lacks one digit
\* pattern.
C20_NarrowEan13 ==
    /\ Succeeded /\ symbology = "BARCODE_ISBNX" /\ second_part = <<>>
    /\ "X" \in Range(first_part)
    /\ Len(dest) = 55 /\ width = 88

\* upce has drawn a symbol and the call has not failed.
DrawnUpce == PrimaryDrawn /\ symbology \in UpceClass

\* The parity string of a UPC-E symbol: the entry of the check digit of the
\* equivalent, in the table of the number system.
UpceParity ==
    LET c == DigitVal(Mod10Check(equivalent, 11, 3, 1))
    IN  IF num_system = 1 THEN UPCParity1[c + 1] ELSE UPCParity0[c + 1]

\* The layout of UPC-E: start guard, the six compressed digits, stop guard.
UpceLayout ==
    <<"1", "1", "1">> \o SetPatterns(SixDigits(primary), 1, 6, UpceParity)
        \o <<"1", "1", "1", "1", "1", "1">>

\* C21: for every successful UPC-E encode the pattern is start guard "111", six
\* digit patterns, one per compressed digit, with the set of position i given by
\* character i of UPCParity0[c] (number system 0) or UPCParity1[c] (number
\* system 1), c the UPC check digit of the 11-digit equivalent, and stop guard
\* "111111", 51 modules in total; no pattern is drawn for the number system
\* digit or for the check digit, supplied or not.
C21_UpceLayout ==
    DrawnUpce =>
        /\ num_system \in {0, 1} /\ Len(equivalent) = 11 /\ AllDigits(equivalent)
        /\ Take(dest, 33) = UpceLayout
        /\ second_part = <<>> => dest = UpceLayout
        /\ Modules(Take(dest, 33)) = 51
        /\ Succeeded /\ second_part = <<>> =>
              width = (IF symbology \in Composite THEN 53 ELSE 51)

\* A UPC-E of number system 1 has been encoded from eight digits, the number
\* system and the check digit among them.
C21_Witness ==
    /\ Succeeded /\ symbology = "BARCODE_UPCE_CHK" /\ Len(primary) = 8
    /\ primary[1] = "1" /\ num_system = 1
    /\ second_part = <<>> /\ Len(dest) = 33 /\ width = 51
    /\ "B" \in Range(UpceParity) /\ dest = UpceLayout

\* A UPC-E of number system 0 has been encoded from six digits.
C21_WitnessSixDigits ==
    /\ Succeeded /\ symbology = "BARCODE_UPCE" /\ Len(primary) = 6
    /\ num_system = 0 /\ second_part = <<>> /\ Len(dest) = 33 /\ width = 51

\* The parity string of the add-on digits a: the EAN-2 entry of (10*d0 + d1) mod 4,
\* or the EAN-5 entry of (3*(d0+d2+d4) + 9*(d1+d3)) mod 10.
AddOnParityOf(a) ==
    IF Len(a) = 2
    THEN EAN2Parity[((10 * DigitVal(a[1]) + DigitVal(a[2])) % 4) + 1]
    ELSE EAN5Parity[((3 * (DigitVal(a[1]) + DigitVal(a[3]) + DigitVal(a[5]))
                        + 9 * (DigitVal(a[2]) + DigitVal(a[4]))) % 10) + 1]

\* The patterns of the digits a in the sets of p, with "11" between two digits.
RECURSIVE AddOnDigits(_, _)
AddOnDigits(a, p) ==
    IF a = <<>> THEN <<>>
    ELSE (IF p[1] = "B" THEN EANsetB ELSE EANsetA)[DigitVal(a[1]) + 1]
            \o (IF Len(a) > 1 THEN <<"1", "1">> ELSE <<>>)
            \o AddOnDigits(Tail(a), Tail(p))

\* The layout of an add-on: start guard, digits and separators, no stop guard.
AddOnLayout(a) == <<"1", "1", "2">> \o AddOnDigits(a, AddOnParityOf(a))

\* The primary was drawn as a standalone EAN-2 or EAN-5.
StandaloneDrawn ==
    /\ PrimaryDrawn /\ symbology \in {"BARCODE_EANX", "BARCODE_EANX_CHK"}
    /\ Len(primary) \in {2, 5}

\* An add-on of digits has been appended after the primary.
DigitAddOnAppended ==
    AddOnDrawn /\ Len(second_part) \in {2, 5} /\ AllDigits(second_part)

\* C22: the pattern of a 2- or 5-digit add-on is start guard "112" and the digit
\* patterns with the separator "11" between consecutive digits and none after
\* the last (no stop guard); the set of digit i is character i of
\* EAN2Parity[(10*d0 + d1) mod 4] or EAN5Parity[(3*(d0+d2+d4) + 9*(d1+d3)) mod 10];
\* identical add-on digits always select the identical parity string.
C22_AddOnLayout ==
    /\ StandaloneDrawn /\ AllDigits(primary) =>
          /\ Take(dest, Len(AddOnLayout(primary))) = AddOnLayout(primary)
          /\ second_part = <<>> =>
                dest = AddOnLayout(primary) /\ addon_parity = AddOnParityOf(primary)
    /\ DigitAddOnAppended =>
          /\ addon_parity = AddOnParityOf(second_part)
          /\ Len(dest) > Len(AddOnLayout(second_part))
          /\ SubSeq(dest, Len(dest) - Len(AddOnLayout(second_part)) + 1, Len(dest))
                = AddOnLayout(second_part)
          /\ Len(AddOnLayout(second_part)) = (IF Len(second_part) = 2 THEN 13 ELSE 31)

\* The EAN-5 add-on "12345" (key 3*9 + 9*6 = 81, parity "BABAA") has been drawn
\* after an EAN-13.
C22_Witness ==
    /\ Succeeded /\ symbology = "BARCODE_EANX" /\ Len(primary) = 13 /\ PlusCount = 1
    /\ second_part = <<"1", "2", "3", "4", "5">>
    /\ addon_parity = <<"B", "A", "B", "A", "A">>
    /\ Len(dest) = 59 + 1 + 31
    /\ SubSeq(dest, 61, 69) = <<"1", "1", "2", "1", "2", "2", "2", "1", "1">>
    /\ SubSeq(dest, 88, 91) = <<"1", "2", "3", "1">>

\* A standalone EAN-5 has been drawn.
C22_WitnessStandalone ==
    /\ Succeeded /\ symbology = "BARCODE_EANX" /\ Len(primary) = 5 /\ PlusCount = 0
    /\ Len(dest) = 31 /\ dest = AddOnLayout(primary)

\* The call has succeeded with a UPC-E symbol.
UpceSucceeded == Succeeded /\ symbology \in UpceClass

\* The UPC-A equivalent of the first seven digits of the text: the digit the
\* text shows as number system, and the expansion of the six compressed digits.
TextExpansion == <<text[1]>> \o SubSeq(equivalent, 2, 11)

\* The text of a UPC-E symbol shows the number system that was used, and ends
\* with the check digit of the expansion of its first seven digits.
TextShowsSystem ==
    /\ Len(text) >= 8 /\ AllDigits(Take(text, 8))
    /\ text[1] \in {"0", "1"}
    /\ num_system \in {0, 1} /\ text[1] = NEON[num_system + 1]
    /\ text[1] = equivalent[1]
    /\ SubSeq(text, 2, 7) = SixDigits(primary)
    /\ text[8] = Mod10Check(TextExpansion, 11, 3, 1)

\* C23: for every successful UPC-E encode the first character of the text is
\* '0' or '1' and is the number system digit used for the equivalent, the check
\* digit and the parity table, so the last digit of the text is the UPC check
\* digit of the expansion of its first seven digits; also when the caller
\* supplies a leading digit 2-9.
C23_TextNumberSystem == UpceSucceeded => TextShowsSystem

\* The same when no leading digit, or the leading digit 0 or 1, is supplied.
C23_TextNumberSystem_ZeroOrOne ==
    UpceSucceeded /\ (HasSystemDigit(primary) => primary[1] \in {"0", "1"})
        => TextShowsSystem

\* A UPC-E request with the leading digit 5 has succeeded: the text starts with
\* 5, the equivalent with 0, and the last digit of the text is the check digit
\* under number system 0.
C23_TextShowsOtherSystem ==
    /\ UpceSucceeded /\ symbology = "BARCODE_UPCE" /\ Len(primary) = 7
    /\ primary[1] = "5" /\ text[1] = "5"
    /\ num_system = 0 /\ equivalent[1] = "0"
    /\ text[8] = Mod10Check(equivalent, 11, 3, 1)
    /\ text[8] # Mod10Check(TextExpansion, 11, 3, 1)

===========================================================================
